---- MODULE Spec2Model ----
(***************************************************************************)
(* Model of the client-side synchronization core of hichi-chat-client:     *)
(* the useChatSocket hook (src/src/hooks/useChatSocket.ts), its reducer,   *)
(* its connection lifecycle, and the Dexie message table it writes to      *)
(* (src/src/services/db.ts).                                               *)
(*                                                                         *)
(* The hook runs on a single-threaded event loop: every action below is    *)
(* one task of that loop (an effect, a socket event, a timer, a user call, *)
(* or the completion of one store operation) and is atomic.                *)
(***************************************************************************)
EXTENDS Integers, Sequences, FiniteSets, TLC

\* ------------------------------------------------------------------------
\* Bounds of the model
\* ------------------------------------------------------------------------
\* Each specification below starts from its own Init, which fixes in `limits`
\* how much the environment does in one run.
\* WebSockets the hook may create in one run of the backoff specification.
MaxHandles == 8
\* reconnect() calls in one run of the backoff specification.
BackoffReconnects == 1
\* WebSockets the hook may create in one run of the lifecycle specification.
LifecycleHandles == 3
\* reconnect() calls in one run of the lifecycle specification.
MaxReconnects == 1
\* Prop changes in one run of the lifecycle specification.
MaxPropChanges == 1
\* sendMessage calls that get a fresh uuid in one run.
MaxSends == 1
\* Store operations that may be pending at once.
MaxQueue == 2
\* WebSockets the hook may create in one run of the ledger specification.
LedgerHandles == 1
\* WebSockets the hook may create in one run of the backlog specification.
BacklogHandles == 2
\* reconnect() calls in one run of the backlog specification.
BacklogReconnects == 1
\* Prop changes in one run of the hydration-gate specification.
LoadPropChanges == 2
\* Clearing requests (of clearChat, clearAllDatabase, clearChatMessages) that
\* remove rows in one run.
MaxClears == 1

\* ------------------------------------------------------------------------
\* Program constants
\* ------------------------------------------------------------------------
MAX_RECONNECT_ATTEMPTS == 6
PING_INTERVAL_MS == 25000
BACKOFF_BASE_MS == 1000
BACKOFF_CAP_MS == 30000
TYPING_EXPIRY_MS == 3000
CLOSE_NORMAL == 1000
CLOSE_GOING_AWAY == 1001
CLOSE_ABNORMAL == 1006
CLOSE_AUTH == 4001
\* Rows getRecentMessagesForHydration reads at most.
HYDRATION_LIMIT == 1000

\* ------------------------------------------------------------------------
\* Values
\* ------------------------------------------------------------------------
NoUser == "<undefined>"      \* myUsername / serverId / localId left undefined
NoToken == ""                \* falsy token
NoId == "<undefined>"
EmptyId == ""                \* data.localId ?? ""
NoError == "<null>"
Me == "alice"
Peers == {"bob", "carol"}

AuthFailedMsg == "Auth failed. Please sign in again."
ExhaustedMsg == "Could not reconnect after multiple attempts."

Handles == 1 .. MaxHandles
NoHandle == 0
\* Values of the server's clock and of Date.now()
Timestamps == {1, 2}

\* ------------------------------------------------------------------------
\* dmChatId: `dm:${[a.toLowerCase(), b.toLowerCase()].sort().join(":")}`
\* ------------------------------------------------------------------------
toLowerCase(n) ==
  CASE n = "Alice" \/ n = "ALICE" -> "alice"
    [] n = "Bob"   \/ n = "BOB"   -> "bob"
    [] n = "Carol" \/ n = "CAROL" -> "carol"
    [] OTHER                      -> n

\* Position of a lower-case name in the code-unit order Array.prototype.sort uses.
StrRank(n) ==
  CASE n = "alice" -> 1
    [] n = "bob"   -> 2
    [] n = "carol" -> 3
    [] OTHER       -> 4

\* The pair left in argument order.
SortPair_ArgumentOrder(x, y) == <<x, y>>

SortPair(x, y) == IF StrRank(y) < StrRank(x) THEN <<y, x>> ELSE <<x, y>>

\* "dm:" + p[1] + ":" + p[2]
JoinDm(p) ==
  CASE p = <<"alice", "alice">> -> "dm:alice:alice"
    [] p = <<"alice", "bob">>   -> "dm:alice:bob"
    [] p = <<"alice", "carol">> -> "dm:alice:carol"
    [] p = <<"bob", "bob">>     -> "dm:bob:bob"
    [] p = <<"bob", "carol">>   -> "dm:bob:carol"
    [] p = <<"carol", "carol">> -> "dm:carol:carol"
    [] OTHER                    -> "dm:?"

dmChatId(a, b) == JoinDm(SortPair(toLowerCase(a), toLowerCase(b)))

\* ------------------------------------------------------------------------
\* Sequence helpers
\* ------------------------------------------------------------------------
SeqFilter(s, Test(_)) == SelectSeq(s, Test)

SeqToSet(s) == {s[i] : i \in 1 .. Len(s)}

RECURSIVE InsertByTimestamp(_, _)
\* Insert m after every element whose timestamp is <= m's (stable).
InsertByTimestamp(sorted, m) ==
  IF sorted = <<>> THEN <<m>>
  ELSE IF Head(sorted).timestamp <= m.timestamp
       THEN <<Head(sorted)>> \o InsertByTimestamp(Tail(sorted), m)
       ELSE <<m>> \o sorted

RECURSIVE SortByTimestamp(_)
\* [...bucket].sort((a, b) => a.timestamp - b.timestamp): stable, ascending.
SortByTimestamp(bucket) ==
  IF bucket = <<>> THEN <<>>
  ELSE InsertByTimestamp(SortByTimestamp(SubSeq(bucket, 1, Len(bucket) - 1)),
                         bucket[Len(bucket)])

\* ------------------------------------------------------------------------
\* The messages map: Record<string, ChatMessage[]>, a function whose domain
\* is the set of keys that are present.
\* ------------------------------------------------------------------------
Bucket(msgs, cid) == IF cid \in DOMAIN msgs THEN msgs[cid] ELSE <<>>

PutBucket(msgs, cid, bucket) ==
  [k \in (DOMAIN msgs) \cup {cid} |-> IF k = cid THEN bucket ELSE msgs[k]]

HasLocalId(bucket, lid) == \E i \in 1 .. Len(bucket) : bucket[i].localId = lid

MapBucket(bucket, F(_)) == [i \in 1 .. Len(bucket) |-> F(bucket[i])]

SortAllBuckets(msgs) == [k \in DOMAIN msgs |-> SortByTimestamp(msgs[k])]

\* payload.map(m => m.chatId)
ChatIds(payload) == [i \in 1 .. Len(payload) |-> payload[i].chatId]

RECURSIVE KeysCreated(_, _)
\* The keys of `created` that `order` does not hold yet, appended in turn.
KeysCreated(order, created) ==
  IF created = <<>> THEN order
  ELSE KeysCreated(IF Head(created) \in SeqToSet(order) THEN order
                   ELSE Append(order, Head(created)),
                   Tail(created))

\* Object.keys(messages) of the object a reducer case returns: a key that
\* was deleted leaves, a key that stays keeps its place, the keys the case
\* created follow in the order they were created.
KeyOrder(order, msgs, created) ==
  KeysCreated(SelectSeq(order, LAMBDA k : k \in DOMAIN msgs),
              SelectSeq(created, LAMBDA k : k \in DOMAIN msgs))

\* { ...state, messages: msgs }; messageKeys is the property order of msgs.
WithMessages(s, msgs, created) ==
  [s EXCEPT !.messages = msgs, !.messageKeys = KeyOrder(s.messageKeys, msgs, created)]

\* ------------------------------------------------------------------------
\* reducer
\* ------------------------------------------------------------------------
initialState ==
  [connectionStatus |-> "idle",
   messages         |-> <<>>,
   messageKeys      |-> <<>>,
   typingPeers      |-> <<>>,
   peerStatuses     |-> <<>>,
   dbLoaded         |-> FALSE,
   error            |-> NoError]

RECURSIVE HydrateMerge(_, _)
HydrateMerge(msgs, payload) ==
  IF payload = <<>> THEN msgs
  ELSE LET msg  == Head(payload)
           cur  == Bucket(msgs, msg.chatId)
           next == IF HasLocalId(cur, msg.localId) THEN cur ELSE Append(cur, msg)
       IN  HydrateMerge(PutBucket(msgs, msg.chatId, next), Tail(payload))

\* Hydration that merges the rows and leaves the loading flag as it was.
DB_HYDRATED_StaysLoading(s, payload) ==
  WithMessages(s, SortAllBuckets(HydrateMerge(s.messages, payload)), ChatIds(payload))

\* Hydration that takes the durable rows for the snapshot's messages.
DB_HYDRATED_Replacing(s, payload) ==
  [WithMessages(s, SortAllBuckets(HydrateMerge(<<>>, payload)), ChatIds(payload))
     EXCEPT !.dbLoaded = TRUE]

DB_HYDRATED(s, payload) ==
  [WithMessages(s, SortAllBuckets(HydrateMerge(s.messages, payload)), ChatIds(payload))
     EXCEPT !.dbLoaded = TRUE]

\* The snapshot object passed to the DB_HYDRATED case, as the case leaves it:
\* nextMsgs is a shallow copy, so nextMsgs[msg.chatId].push(msg) appends to
\* the array the passed-in snapshot holds whenever that bucket existed; the
\* sorted copies go to nextMsgs only.
DB_HYDRATED_Argument(s, payload) ==
  [s EXCEPT !.messages =
     [cid \in DOMAIN s.messages |-> HydrateMerge(s.messages, payload)[cid]]]

CONNECTING(s) == [s EXCEPT !.connectionStatus = "connecting", !.error = NoError]

CONNECTED(s) == [s EXCEPT !.connectionStatus = "connected", !.error = NoError]

RECONNECTING(s) == [s EXCEPT !.connectionStatus = "reconnecting"]

DISCONNECTED(s) == [s EXCEPT !.connectionStatus = "disconnected"]

AUTH_FAILED(s, payload) ==
  [s EXCEPT !.connectionStatus = "auth_failed", !.error = payload]

\* An error that is recorded only when none is shown.
ERROR_KeepsFirst(s, payload) == IF s.error = NoError THEN [s EXCEPT !.error = payload] ELSE s

ERROR(s, payload) == [s EXCEPT !.error = payload]

\* The acknowledgement applied without taking the server's timestamp.
MESSAGE_UPDATED_KeepsTimestamp(s, payload) ==
  LET chatId == payload.message.chatId
      Upd(m) == IF m.localId = payload.localId
                THEN [m EXCEPT !.serverId = payload.message.id, !.status = "sent"]
                ELSE m
  IN  IF chatId \in DOMAIN s.messages
      THEN [s EXCEPT !.messages = PutBucket(@, chatId, MapBucket(s.messages[chatId], Upd))]
      ELSE s

\* The acknowledgement followed by a sort of every bucket.
MESSAGE_UPDATED_Resorting(s, payload) ==
  LET chatId == payload.message.chatId
      Upd(m) == IF m.localId = payload.localId
                THEN [m EXCEPT !.serverId  = payload.message.id,
                               !.status    = "sent",
                               !.timestamp = payload.message.timestamp]
                ELSE m
  IN  IF chatId \in DOMAIN s.messages
      THEN [s EXCEPT !.messages =
              SortAllBuckets(PutBucket(@, chatId, MapBucket(s.messages[chatId], Upd)))]
      ELSE s

\* payload = [localId, message], message a wire message (id, chatId, timestamp, ...)
MESSAGE_UPDATED(s, payload) ==
  LET chatId == payload.message.chatId
      Upd(m) == IF m.localId = payload.localId
                THEN [m EXCEPT !.serverId  = payload.message.id,
                               !.status    = "sent",
                               !.timestamp = payload.message.timestamp]
                ELSE m
  IN  IF chatId \in DOMAIN s.messages
      THEN [s EXCEPT !.messages = PutBucket(@, chatId, MapBucket(s.messages[chatId], Upd))]
      ELSE s

\* The message appended without looking for its localId first.
MESSAGE_ADDED_NoDedup(s, payload) ==
  WithMessages(s, PutBucket(s.messages, payload.chatId,
                            Append(Bucket(s.messages, payload.chatId), payload)),
               <<payload.chatId>>)

MESSAGE_ADDED(s, payload) ==
  LET cid      == payload.chatId
      existing == Bucket(s.messages, cid)
  IN  IF HasLocalId(existing, payload.localId)
      THEN s
      ELSE WithMessages(s, PutBucket(s.messages, cid, Append(existing, payload)), <<cid>>)

RECURSIVE BulkMerge(_, _)
BulkMerge(msgs, payload) ==
  IF payload = <<>> THEN msgs
  ELSE LET msg      == Head(payload)
           existing == Bucket(msgs, msg.chatId)
       IN  BulkMerge(IF HasLocalId(existing, msg.localId)
                     THEN msgs
                     ELSE PutBucket(msgs, msg.chatId, Append(existing, msg)),
                     Tail(payload))

\* The bulk merge without the sort that follows it.
MESSAGES_BULK_ADD_Unsorted(s, payload) ==
  WithMessages(s, BulkMerge(s.messages, payload), ChatIds(payload))

MESSAGES_BULK_ADD(s, payload) ==
  WithMessages(s, SortAllBuckets(BulkMerge(s.messages, payload)), ChatIds(payload))

\* payload = [chatId, readerUsername]
MESSAGES_MARKED_READ(s, payload) ==
  LET Upd(m) == IF m.senderUsername # payload.readerUsername /\ m.status # "read"
                THEN [m EXCEPT !.status = "read"]
                ELSE m
  IN  IF payload.chatId \in DOMAIN s.messages
      THEN [s EXCEPT !.messages =
              PutBucket(@, payload.chatId, MapBucket(s.messages[payload.chatId], Upd))]
      ELSE s

\* payload = [chatId, messageIds]
MESSAGES_READ_BY_PEER(s, payload) ==
  LET Upd(m) == IF m.localId \in payload.messageIds
                THEN [m EXCEPT !.status = "read"]
                ELSE m
  IN  IF payload.chatId \in DOMAIN s.messages
      THEN [s EXCEPT !.messages =
              PutBucket(@, payload.chatId, MapBucket(s.messages[payload.chatId], Upd))]
      ELSE s

\* The match by localId alone, as MESSAGES_READ_BY_PEER makes it.
MatchesLocalIdOnly(m, messageIds) == m.localId \in messageIds

\* (m.serverId && messageIds.includes(m.serverId)) || messageIds.includes(m.localId)
MatchesIds(m, messageIds) ==
  \/ (m.serverId # NoId /\ m.serverId # EmptyId /\ m.serverId \in messageIds)
  \/ m.localId \in messageIds

\* payload = [chatId, messageIds, status]
MESSAGES_UPDATED_STATUS(s, payload) ==
  LET Upd(m) == IF MatchesIds(m, payload.messageIds)
                THEN [m EXCEPT !.status = payload.status]
                ELSE m
  IN  IF payload.chatId \in DOMAIN s.messages
      THEN [s EXCEPT !.messages =
              PutBucket(@, payload.chatId, MapBucket(s.messages[payload.chatId], Upd))]
      ELSE s

SetKey(f, k, v) == [x \in (DOMAIN f) \cup {k} |-> IF x = k THEN v ELSE f[x]]

\* payload = [peerUsername, isTyping]
TYPING_UPDATE(s, payload) ==
  [s EXCEPT !.typingPeers = SetKey(@, payload.peerUsername, payload.isTyping)]

\* payload = [username, status]
PEER_STATUS(s, payload) ==
  [s EXCEPT !.peerStatuses = SetKey(@, payload.username, payload.status)]

\* payload = [chatId]
CLEAR_CHAT(s, payload) ==
  WithMessages(s, [k \in (DOMAIN s.messages) \ {payload.chatId} |-> s.messages[k]], <<>>)

\* ------------------------------------------------------------------------
\* State
\* ------------------------------------------------------------------------
VARIABLES
  state,                 \* useReducer snapshot (SocketState)
  phase,                 \* "rendered" (effects not yet run) | "mounted" | "unmounted"
  token, myUsername,     \* the hook's props
  wsRef,                 \* handle held in wsRef.current, NoHandle for null
  isMountedRef,
  intentionalCloseRef,
  reconnectAttemptsRef,
  reconnectTimerRef,     \* id of the timer last stored, 0 for null
  pingTimerRef,          \* handle whose onopen stored the interval, 0 for null
  pingLive,              \* the interval stored in pingTimerRef has not been cleared
  typingTimerRef,        \* peers whose expiry timer is armed
  readyState,            \* readyState of every WebSocket created so far
  handleCount,           \* number of WebSockets created so far
  timers,                \* armed backoff timers: set of [id, delay]
  sent,                  \* frames the transport accepted during the latest step
  db,                    \* rows of the Dexie messages table, in primary-key order
  dbIds,                 \* primary key (++id) of each row of db, row by row
  nextId,                \* key the table's generator gives the next row added
  dbQueue,               \* store operations issued and not yet completed, in issue order
  imports,               \* import("../services/db").then callbacks not yet run, in call order
  clearsDone,            \* number of clearing requests that have removed rows
  clock,                 \* latest Date.now() value handed out
  uuidCount,             \* number of uuid() values handed out
  reconnectCalls,        \* number of reconnect() calls made by the caller
  propChanges,           \* number of prop changes so far
  limits,                \* what the environment may still do in this run (fixed by Init)
  last,                  \* what the latest step was (label of the step)
  delays,                \* delays scheduled since the retry counter was last reset
  readMatched,           \* localIds of the messages a messages_read frame has matched
  authClosed             \* the current handle closed with 4001/1006 and the caller has not connected since

vars ==
  <<state, phase, token, myUsername, wsRef, isMountedRef, intentionalCloseRef,
    reconnectAttemptsRef, reconnectTimerRef, pingTimerRef, pingLive, typingTimerRef,
    readyState, handleCount, timers, sent, db, dbIds, nextId, dbQueue, imports,
    clock, uuidCount, clearsDone,
    reconnectCalls, propChanges, limits, last, delays, readMatched, authClosed>>

propVars == <<token, myUsername, propChanges, limits>>
timerVars == <<reconnectTimerRef, timers, delays>>
pingVars == <<pingTimerRef, pingLive>>
connVars == <<wsRef, intentionalCloseRef, readyState, handleCount>>
tableVars == <<db, dbIds, nextId>>
storeVars == <<db, dbIds, nextId, dbQueue, imports>>
idVars == <<clock, uuidCount, clearsDone>>
histVars == <<readMatched, authClosed>>

\* ------------------------------------------------------------------------
\* The transport (browser WebSocket) as the hook sees it
\* ------------------------------------------------------------------------
\* Close codes an onclose event may carry: normal, going away, abnormal,
\* a server-side failure (1011) and the server's auth rejection.
CloseCodes == {CLOSE_NORMAL, CLOSE_GOING_AWAY, CLOSE_ABNORMAL, 1011, CLOSE_AUTH}

\* close() that leaves the socket as it was.
CloseHandle_Ignored(rs, h) == rs

\* ws.close(): CONNECTING and OPEN become CLOSING; otherwise nothing happens.
\* "aborting" is the CLOSING of a socket that never opened: no frame can
\* arrive on it.
CloseHandle(rs, h) ==
  IF h # NoHandle /\ rs[h] = "open" THEN [rs EXCEPT ![h] = "closing"]
  ELSE IF h # NoHandle /\ rs[h] = "connecting" THEN [rs EXCEPT ![h] = "aborting"]
  ELSE rs

IsOpen(rs, h) == h # NoHandle /\ rs[h] = "open"

\* ws.send(frame): transmitted when OPEN; silently discarded when CLOSING or CLOSED.
Transmit(rs, h, frame) == IF IsOpen(rs, h) THEN <<[ws |-> h, frame |-> frame]>> ELSE <<>>

\* dispatch(action): React drops updates of a component that has unmounted.
Dispatched(next) == IF phase = "unmounted" THEN state ELSE next

HasCreds(tok, user) == tok # NoToken /\ user # NoUser

\* ------------------------------------------------------------------------
\* connect
\* ------------------------------------------------------------------------
\* The values connect() leaves behind when it runs on snapshot s with
\* wsRef.current = ws, intentionalCloseRef.current = ic and the sockets in rs.
\* `creds` is the closure's (token && myUsername), `mounted` is
\* isMountedRef.current at that moment.
ConnectOn(creds, mounted, s, ws, ic, rs) ==
  IF ~creds \/ ~mounted
  THEN [state |-> s, wsRef |-> ws, intentionalCloseRef |-> ic,
        readyState |-> rs, handleCount |-> handleCount]
  ELSE [state |-> CONNECTING(s),
        wsRef |-> handleCount + 1,
        intentionalCloseRef |-> FALSE,
        readyState |-> [CloseHandle(rs, ws) EXCEPT ![handleCount + 1] = "connecting"],
        handleCount |-> handleCount + 1]

ConnectResult(creds, mounted, s) ==
  ConnectOn(creds, mounted, s, wsRef, intentionalCloseRef, readyState)

\* connect() would create a WebSocket and the model has one left to create.
CanCreate(creds, mounted) == (creds /\ mounted) => handleCount < limits.handles

SetConn(r) ==
  /\ state' = Dispatched(r.state)
  /\ wsRef' = r.wsRef
  /\ intentionalCloseRef' = r.intentionalCloseRef
  /\ readyState' = r.readyState
  /\ handleCount' = r.handleCount

\* The backoff without its ceiling.
BackoffUncapped(attempt) == BACKOFF_BASE_MS * (2 ^ attempt)

\* delay = Math.min(1_000 * Math.pow(2, attempt), 30_000)
Backoff(attempt) ==
  IF BACKOFF_BASE_MS * (2 ^ attempt) < BACKOFF_CAP_MS
  THEN BACKOFF_BASE_MS * (2 ^ attempt)
  ELSE BACKOFF_CAP_MS

\* ------------------------------------------------------------------------
\* Store operations
\* ------------------------------------------------------------------------
\* `idle` is a note for markAsRead's read: whether, when markAsRead was called,
\* the snapshot held nothing for it to read or the transport was not open.
\* `key` is the primary key a per-row request names, 0 when it names none.
StoreOp(op, chatId, msgs, ids, who) ==
  [op |-> op, chatId |-> chatId, msgs |-> msgs, ids |-> ids, who |-> who, key |-> 0,
   idle |-> FALSE]

HydrateOp == StoreOp("getRecentMessagesForHydration", "", <<>>, {}, "")

\* ------------------------------------------------------------------------
\* Effects: mount, prop change, unmount
\* ------------------------------------------------------------------------
Limits(handles, reconnects, changes, sends, queue) ==
  [handles |-> handles, reconnects |-> reconnects, propChanges |-> changes,
   sends |-> sends, queue |-> queue, clears |-> MaxClears]

\* The hook after its first render, before its effects have run, over a
\* store that holds `rows` (what earlier sessions left in IndexedDB).
RenderedOver(tok, user, lim, rows) ==
  /\ state = initialState
  /\ phase = "rendered"
  /\ token = tok
  /\ myUsername = user
  /\ wsRef = NoHandle
  /\ isMountedRef = TRUE
  /\ intentionalCloseRef = FALSE
  /\ reconnectAttemptsRef = 0
  /\ reconnectTimerRef = 0
  /\ pingTimerRef = 0
  /\ pingLive = FALSE
  /\ typingTimerRef = {}
  /\ readyState = [h \in Handles |-> "unborn"]
  /\ handleCount = 0
  /\ timers = {}
  /\ sent = <<>>
  /\ db = rows
  /\ dbIds = [i \in 1 .. Len(rows) |-> i]
  /\ nextId = Len(rows) + 1
  /\ dbQueue = <<>>
  /\ imports = <<>>
  /\ clock = 1
  /\ uuidCount = 0
  /\ clearsDone = 0
  /\ reconnectCalls = 0
  /\ propChanges = 0
  /\ limits = lim
  /\ last = [op |-> "render"]
  /\ delays = <<>>
  /\ readMatched = {}
  /\ authClosed = FALSE

\* The first render of a browser profile whose store is empty.
Rendered(tok, user, lim) == RenderedOver(tok, user, lim, <<>>)

\* Store requests under way: issued and not settled, or waiting for their
\* import().then callback.
Pending == Len(dbQueue) + Len(imports)

\* The hydration effect body (deps [myUsername]).
HydrationEffect(user, queue) ==
  IF user = NoUser THEN queue ELSE Append(queue, HydrateOp)

\* First run of both effects after the first render.
Mount ==
  /\ phase = "rendered"
  /\ CanCreate(HasCreds(token, myUsername), TRUE)
  /\ phase' = "mounted"
  /\ dbQueue' = HydrationEffect(myUsername, dbQueue)
  /\ imports' = imports
  /\ isMountedRef' = TRUE
  /\ SetConn(ConnectResult(HasCreds(token, myUsername), TRUE, state))
  /\ sent' = <<>>
  /\ last' = [op |-> "mount"]
  /\ authClosed' = FALSE
  /\ UNCHANGED <<propVars, reconnectAttemptsRef, timerVars, pingVars, typingTimerRef,
                 tableVars, idVars, reconnectCalls, readMatched>>

\* The cleanup the connect effect returned (only when it ran with token and
\* myUsername): the values it leaves behind.
CleanupTimers == {t \in timers : t.id # reconnectTimerRef}

\* The caller re-renders the hook with other props: the connect effect's
\* cleanup runs (if it registered one), then the effects whose deps changed.
SetProps(tok, user) ==
  /\ phase = "mounted"
  /\ propChanges < limits.propChanges
  /\ <<tok, user>> # <<token, myUsername>>
  /\ CanCreate(HasCreds(tok, user), TRUE)
  /\ LET hadCleanup == HasCreds(token, myUsername)
         rs1 == IF hadCleanup THEN CloseHandle(readyState, wsRef) ELSE readyState
         ws1 == IF hadCleanup THEN NoHandle ELSE wsRef
         ic1 == IF hadCleanup THEN TRUE ELSE intentionalCloseRef
     IN  /\ timers' = IF hadCleanup THEN CleanupTimers ELSE timers
         /\ pingLive' = IF hadCleanup THEN FALSE ELSE pingLive
         /\ typingTimerRef' = IF hadCleanup THEN {} ELSE typingTimerRef
         /\ isMountedRef' = TRUE
         \* connect() of the new render, on the refs the cleanup left
         /\ SetConn(ConnectOn(HasCreds(tok, user), TRUE, state, ws1, ic1, rs1))
  /\ dbQueue' = IF user # myUsername THEN HydrationEffect(user, dbQueue) ELSE dbQueue
  /\ imports' = imports
  /\ token' = tok
  /\ myUsername' = user
  /\ propChanges' = propChanges + 1
  /\ limits' = limits
  /\ sent' = <<>>
  /\ last' = [op |-> "setProps"]
  /\ authClosed' = FALSE
  /\ UNCHANGED <<phase, reconnectAttemptsRef, reconnectTimerRef, delays, pingTimerRef,
                 tableVars, idVars, reconnectCalls, readMatched>>

\* The component unmounts: the connect effect's cleanup runs, if registered.
Unmount ==
  /\ phase = "mounted"
  /\ LET hadCleanup == HasCreds(token, myUsername)
     IN  /\ timers' = IF hadCleanup THEN CleanupTimers ELSE timers
         /\ pingLive' = IF hadCleanup THEN FALSE ELSE pingLive
         /\ typingTimerRef' = IF hadCleanup THEN {} ELSE typingTimerRef
         /\ isMountedRef' = IF hadCleanup THEN FALSE ELSE isMountedRef
         /\ intentionalCloseRef' = IF hadCleanup THEN TRUE ELSE intentionalCloseRef
         /\ readyState' = IF hadCleanup THEN CloseHandle(readyState, wsRef) ELSE readyState
         /\ wsRef' = IF hadCleanup THEN NoHandle ELSE wsRef
  /\ phase' = "unmounted"
  /\ sent' = <<>>
  /\ last' = [op |-> "unmount"]
  /\ UNCHANGED <<state, propVars, reconnectAttemptsRef, reconnectTimerRef, delays,
                 pingTimerRef, handleCount, storeVars, idVars, reconnectCalls, histVars>>

\* ------------------------------------------------------------------------
\* Socket events of the connection lifecycle
\* ------------------------------------------------------------------------
\* ws.onopen of handle h. The browser fires it only on a CONNECTING socket.
OnOpen(h) ==
  /\ h \in 1 .. handleCount
  /\ readyState[h] = "connecting"
  /\ readyState' = [readyState EXCEPT ![h] = "open"]
  /\ IF isMountedRef
     THEN /\ reconnectAttemptsRef' = 0
          /\ delays' = <<>>
          /\ state' = Dispatched(CONNECTED(state))
          /\ pingTimerRef' = h
          /\ pingLive' = TRUE
     ELSE UNCHANGED <<reconnectAttemptsRef, delays, state, pingTimerRef, pingLive>>
  /\ sent' = <<>>
  /\ last' = [op |-> "onopen", ws |-> h, superseded |-> (wsRef # NoHandle /\ h # wsRef)]
  /\ UNCHANGED <<phase, propVars, wsRef, isMountedRef, intentionalCloseRef,
                 reconnectTimerRef, timers, typingTimerRef, handleCount, storeVars,
                 idVars, reconnectCalls, histVars>>

\* scheduleReconnect(), called from onclose with isMountedRef.current true,
\* on snapshot s: the values it leaves behind.
ScheduleReconnect(s, h) ==
  IF reconnectAttemptsRef >= MAX_RECONNECT_ATTEMPTS
  THEN [state |-> ERROR(s, ExhaustedMsg),
        attempts |-> reconnectAttemptsRef,
        timers |-> timers,
        timerRef |-> reconnectTimerRef,
        delays |-> delays]
  ELSE [state |-> RECONNECTING(s),
        attempts |-> reconnectAttemptsRef + 1,
        timers |-> timers \cup {[id |-> h, delay |-> Backoff(reconnectAttemptsRef)]},
        timerRef |-> h,
        delays |-> Append(delays, Backoff(reconnectAttemptsRef))]

\* The retryable test of ws.onclose.
ShouldRetry(code, intentional) ==
  code # CLOSE_NORMAL /\ code # CLOSE_GOING_AWAY /\ ~intentional

IsAuthClose(code) == code = CLOSE_AUTH \/ code = CLOSE_ABNORMAL

\* ws.onclose of handle h with close code `code`. Every socket that was
\* created and has not closed yet gets exactly one close event.
OnClose(h, code) ==
  /\ h \in 1 .. handleCount
  /\ readyState[h] \in {"connecting", "open", "closing", "aborting"}
  /\ readyState' = [readyState EXCEPT ![h] = "closed"]
  /\ IF ~isMountedRef
     THEN UNCHANGED <<state, pingVars, reconnectAttemptsRef, timerVars>>
     ELSE /\ pingTimerRef' = 0
          /\ pingLive' = FALSE
          /\ IF IsAuthClose(code)
             THEN /\ state' = Dispatched(AUTH_FAILED(state, AuthFailedMsg))
                  /\ UNCHANGED <<reconnectAttemptsRef, timerVars>>
             ELSE IF ShouldRetry(code, intentionalCloseRef)
             THEN LET r == ScheduleReconnect(DISCONNECTED(state), h)
                  IN  /\ state' = Dispatched(r.state)
                      /\ reconnectAttemptsRef' = r.attempts
                      /\ timers' = r.timers
                      /\ reconnectTimerRef' = r.timerRef
                      /\ delays' = r.delays
             ELSE /\ state' = Dispatched(DISCONNECTED(state))
                  /\ UNCHANGED <<reconnectAttemptsRef, timerVars>>
  /\ sent' = <<>>
  /\ last' = [op |-> "onclose", ws |-> h, current |-> (h = wsRef),
              superseded |-> (wsRef # NoHandle /\ h # wsRef), code |-> code,
              wasMounted |-> isMountedRef]
  /\ authClosed' = (authClosed \/ (isMountedRef /\ IsAuthClose(code) /\ h = wsRef))
  /\ UNCHANGED <<phase, propVars, wsRef, isMountedRef, intentionalCloseRef,
                 typingTimerRef, handleCount, storeVars, idVars, reconnectCalls, readMatched>>

\* A backoff timer fires: setTimeout(connect, delay). The closure that
\* scheduled it was created with token and myUsername present.
ReconnectTimerFires(t) ==
  /\ t \in timers
  /\ CanCreate(TRUE, isMountedRef)
  /\ timers' = timers \ {t}
  /\ SetConn(ConnectResult(TRUE, isMountedRef, state))
  /\ sent' = <<>>
  /\ last' = [op |-> "reconnectTimer", delay |-> t.delay, made |-> isMountedRef]
  /\ UNCHANGED <<phase, propVars, isMountedRef, reconnectAttemptsRef, reconnectTimerRef,
                 delays, pingVars, typingTimerRef, storeVars, idVars, reconnectCalls, histVars>>

\* reconnect(): reconnectAttemptsRef.current = 0; connect()
Reconnect ==
  /\ phase = "mounted"
  /\ reconnectCalls < limits.reconnects
  /\ CanCreate(HasCreds(token, myUsername), isMountedRef)
  /\ reconnectCalls' = reconnectCalls + 1
  /\ reconnectAttemptsRef' = 0
  /\ delays' = <<>>
  /\ SetConn(ConnectResult(HasCreds(token, myUsername), isMountedRef, state))
  /\ sent' = <<>>
  /\ last' = [op |-> "reconnect", made |-> (HasCreds(token, myUsername) /\ isMountedRef)]
  /\ authClosed' = FALSE
  /\ UNCHANGED <<phase, propVars, isMountedRef, reconnectTimerRef, timers, pingVars,
                 typingTimerRef, storeVars, idVars, readMatched>>

\* The heartbeat interval fires: ping on the socket whose onopen armed it.
PingFires ==
  /\ pingLive
  /\ sent' = Transmit(readyState, pingTimerRef, [type |-> "ping"])
  /\ last' = [op |-> "pingTimer", ws |-> pingTimerRef]
  /\ UNCHANGED <<state, phase, propVars, connVars, isMountedRef, reconnectAttemptsRef,
                 timerVars, pingVars, typingTimerRef, storeVars, idVars, reconnectCalls, histVars>>

\* ------------------------------------------------------------------------
\* Messages and frames
\* ------------------------------------------------------------------------
ChatMessage(localId, serverId, chatId, sender, receiver, text, timestamp, status) ==
  [localId |-> localId, serverId |-> serverId, chatId |-> chatId,
   senderUsername |-> sender, receiverUsername |-> receiver, text |-> text,
   timestamp |-> timestamp, status |-> status]

WireMessage(id, chatId, from, to, text, timestamp) ==
  [id |-> id, chatId |-> chatId, from |-> from, to |-> to, text |-> text,
   timestamp |-> timestamp]

\* A wire message entered as sent.
Incoming_AsSent(msg, me) ==
  ChatMessage(msg.id, NoId, msg.chatId, msg.from, me, msg.text, msg.timestamp, "sent")

\* new_message / pending_messages: the wire message as it enters the snapshot.
Incoming(msg, me) ==
  ChatMessage(msg.id, NoId, msg.chatId, msg.from, me, msg.text, msg.timestamp, "delivered")

\* A history message entered as delivered whoever wrote it.
HistoricAsDelivered(m, chatId, peer, me) ==
  ChatMessage(m.id, NoId, chatId, m.from, IF m.from = me THEN peer ELSE me,
              m.text, m.timestamp, "delivered")

\* history: one wire message of the frame as it enters the snapshot.
Historic(m, chatId, peer, me) ==
  ChatMessage(m.id, NoId, chatId, m.from,
              IF m.from = me THEN peer ELSE me,
              m.text, m.timestamp,
              IF m.from = me THEN "sent" ELSE "delivered")

\* message_sent: the object handed to upsertMessage.
AckRow(localId, serverMsg) ==
  ChatMessage(localId, NoId, serverMsg.chatId, serverMsg.from, serverMsg.to,
              serverMsg.text, serverMsg.timestamp, "sent")

\* `[${data.code}] ${data.message}`
FormatError(code, message) ==
  CASE code = 4000 /\ message = "bad request" -> "[4000] bad request"
    [] code = 5000 /\ message = "internal"    -> "[5000] internal"
    [] OTHER                                  -> "[?] ?"

RECURSIVE AddEach(_, _)
\* msgs.forEach((m) => dispatch({ type: "MESSAGE_ADDED", payload: m }))
AddEach(s, msgs) ==
  IF msgs = <<>> THEN s ELSE AddEach(MESSAGE_ADDED(s, Head(msgs)), Tail(msgs))

\* What ws.onmessage does with a parsed frame `data` once it has passed the
\* isMountedRef test: the snapshot it dispatches to, the store operations it
\* issues itself (ops) and those it leaves to an import().then callback
\* (then), the frames it hands to ws.send, and the typing timers it leaves armed.
\* `me` is the closure's myUsername.
Handle(data, s, me) ==
  LET base == [state |-> s, ops |-> <<>>, then |-> <<>>, out |-> <<>>,
               typing |-> typingTimerRef]
  IN
  CASE data.type = "message_sent" ->
         [base EXCEPT
            !.state = MESSAGE_UPDATED(s, [localId |-> data.localId, message |-> data.message]),
            !.then = <<StoreOp("upsertMessage", "", <<AckRow(data.localId, data.message)>>,
                               {}, "")>>]
    [] data.type = "new_message" ->
         [base EXCEPT
            !.state = MESSAGE_ADDED(s, Incoming(data.message, me)),
            !.ops = <<StoreOp("upsertMessage", "", <<Incoming(data.message, me)>>, {}, "")>>]
    [] data.type = "pending_messages" ->
         LET msgs == [i \in 1 .. Len(data.messages) |-> Incoming(data.messages[i], me)]
         IN  [base EXCEPT
                !.state = AddEach(s, msgs),
                !.ops = <<StoreOp("bulkUpsertMessages", "", msgs, {}, "")>>,
                !.out = <<[type |-> "ack_pending", ids |-> data.messageIds]>>]
    [] data.type = "history" ->
         LET chatMsgs == [i \in 1 .. Len(data.messages) |->
                            Historic(data.messages[i], data.chatId, data.with, me)]
         IN  [base EXCEPT
                !.state = MESSAGES_BULK_ADD(s, chatMsgs),
                !.ops = <<StoreOp("bulkUpsertMessages", "", chatMsgs, {}, "")>>]
    [] data.type = "messages_read" ->
         [base EXCEPT
            !.state = MESSAGES_UPDATED_STATUS(s,
                        [chatId |-> data.chatId, messageIds |-> data.messageIds,
                         status |-> "read"]),
            !.then = <<StoreOp("modifyRead", data.chatId, <<>>, data.messageIds, "")>>]
    [] data.type = "typing_start" ->
         [base EXCEPT
            !.state = TYPING_UPDATE(s, [peerUsername |-> data.from, isTyping |-> TRUE]),
            !.typing = typingTimerRef \cup {data.from}]
    [] data.type = "typing_stop" ->
         [base EXCEPT
            !.state = TYPING_UPDATE(s, [peerUsername |-> data.from, isTyping |-> FALSE]),
            !.typing = typingTimerRef \ {data.from}]
    [] data.type = "user_status_change" ->
         [base EXCEPT
            !.state = PEER_STATUS(s, [username |-> data.username, status |-> data.status])]
    [] data.type = "error" ->
         [base EXCEPT !.state = ERROR(s, FormatError(data.code, data.message))]
    [] OTHER -> base   \* pong, and a frame type the switch does not list

\* The messages of the snapshot a messages_read frame names, by either identifier.
ReadTargets(s, chatId, messageIds) ==
  {m.localId : m \in {x \in SeqToSet(Bucket(s.messages, chatId)) :
                         x.localId \in messageIds \/ x.serverId \in messageIds}}

\* The message event fired while close() has been called on the socket.
MessageEventFires_AfterClose(rs, h) == rs[h] \in {"open", "closing"}

\* The browser's task for a frame received on socket h: "if ready state is
\* not OPEN, return"; the message event fires on an OPEN socket only.
MessageEventFires(rs, h) == rs[h] = "open"

\* ws.onmessage of handle h. `parsed` is FALSE for a text JSON.parse rejects.
\* The handler itself tests neither the socket's readyState nor wsRef.current.
OnMessage(h, parsed, data) ==
  /\ h \in 1 .. handleCount
  /\ MessageEventFires(readyState, h)
  /\ LET r == IF isMountedRef /\ parsed
              THEN Handle(data, state, Me)
              ELSE [state |-> state, ops |-> <<>>, then |-> <<>>, out |-> <<>>,
                    typing |-> typingTimerRef]
     IN  /\ Pending + Len(r.ops) + Len(r.then) <= limits.queue
         /\ state' = Dispatched(r.state)
         /\ dbQueue' = dbQueue \o r.ops
         /\ imports' = imports \o r.then
         /\ sent' = IF r.out = <<>> THEN <<>> ELSE Transmit(readyState, h, r.out[1])
         /\ typingTimerRef' = r.typing
  /\ readMatched' = IF isMountedRef /\ parsed /\ data.type = "messages_read"
                    THEN readMatched \cup ReadTargets(state, data.chatId, data.messageIds)
                    ELSE readMatched
  /\ last' = [op |-> "onmessage", ws |-> h,
              superseded |-> (wsRef # NoHandle /\ h # wsRef),
              type |-> IF parsed THEN data.type ELSE "<bad json>",
              data |-> data, wasMounted |-> isMountedRef]
  /\ UNCHANGED <<phase, propVars, connVars, isMountedRef, reconnectAttemptsRef,
                 timerVars, pingVars, tableVars, idVars, reconnectCalls, authClosed>>

\* A frame that was in flight when close() was called reaches socket h,
\* which has not closed yet: no message event fires, ws.onmessage does not run.
FrameDropped(h, data) ==
  /\ h \in 1 .. handleCount
  /\ readyState[h] = "closing"
  /\ ~MessageEventFires(readyState, h)
  /\ sent' = <<>>
  /\ last' = [op |-> "frameDropped", ws |-> h,
              superseded |-> (wsRef # NoHandle /\ h # wsRef),
              type |-> data.type, data |-> data, wasMounted |-> isMountedRef]
  /\ UNCHANGED <<state, phase, propVars, connVars, isMountedRef, reconnectAttemptsRef,
                 timerVars, pingVars, typingTimerRef, storeVars, idVars, reconnectCalls,
                 histVars>>

\* The 3-second typing expiry timer of peer p fires.
TypingTimerFires(p) ==
  /\ p \in typingTimerRef
  /\ typingTimerRef' = typingTimerRef \ {p}
  /\ state' = IF isMountedRef
              THEN Dispatched(TYPING_UPDATE(state, [peerUsername |-> p, isTyping |-> FALSE]))
              ELSE state
  /\ sent' = <<>>
  /\ last' = [op |-> "typingTimer", peer |-> p]
  /\ UNCHANGED <<phase, propVars, connVars, isMountedRef, reconnectAttemptsRef,
                 timerVars, pingVars, storeVars, idVars, reconnectCalls, histVars>>

\* ------------------------------------------------------------------------
\* Caller actions
\* ------------------------------------------------------------------------
\* uuid(): the n-th value handed out.
Uuid(n) == CASE n = 1 -> "u1" [] n = 2 -> "u2" [] n = 3 -> "u3" [] OTHER -> "u4"

\* The text taken as typed.
Trim_AsTyped(text) == text

\* text.trim()
Trim(text) ==
  CASE text = " "    -> ""
    [] text = " hi " -> "hi"
    [] OTHER         -> text

\* sendMessage(receiverUsername, text); `now` is the value Date.now() returns.
SendMessage(to, text, now) ==
  /\ phase = "mounted"
  /\ now >= clock
  /\ LET trimmed == Trim(text)
         goes    == myUsername # NoUser /\ IsOpen(readyState, wsRef) /\ trimmed # ""
         localId == Uuid(uuidCount + 1)
         optimisticMsg == ChatMessage(localId, NoId, dmChatId(myUsername, to), myUsername,
                                      to, trimmed, now, "sending")
     IN  IF goes
         THEN /\ uuidCount < limits.sends
              /\ Pending < limits.queue
              /\ uuidCount' = uuidCount + 1
              /\ clock' = now
              /\ state' = Dispatched(MESSAGE_ADDED(state, optimisticMsg))
              /\ imports' = Append(imports,
                                   StoreOp("upsertMessage", "", <<optimisticMsg>>, {}, ""))
              /\ sent' = Transmit(readyState, wsRef,
                                  [type |-> "send_message", to |-> to,
                                   content |-> trimmed, localId |-> localId])
              /\ last' = [op |-> "sendMessage", to |-> to, text |-> text, went |-> TRUE,
                          localId |-> localId, chatId |-> dmChatId(myUsername, to)]
         ELSE /\ now = clock
              /\ sent' = <<>>
              /\ last' = [op |-> "sendMessage", to |-> to, text |-> text, went |-> FALSE,
                          localId |-> NoId, chatId |-> ""]
              /\ UNCHANGED <<state, imports, clock, uuidCount>>
  /\ UNCHANGED <<dbQueue, clearsDone, phase, propVars, connVars, isMountedRef,
                 reconnectAttemptsRef,
                 timerVars, pingVars, typingTimerRef, tableVars, reconnectCalls, histVars>>

\* emitTypingStart(to) / emitTypingStop(to)
EmitTyping(kind, to) ==
  /\ phase = "mounted"
  /\ sent' = Transmit(readyState, wsRef, [type |-> kind, to |-> to])
  /\ last' = [op |-> "emitTyping", kind |-> kind, to |-> to]
  /\ UNCHANGED <<state, phase, propVars, connVars, isMountedRef, reconnectAttemptsRef,
                 timerVars, pingVars, typingTimerRef, storeVars, idVars, reconnectCalls, histVars>>

\* The messages of a conversation that the peer wrote and that are not read,
\* in the snapshot.
UnreadInMemory(s, chatId) ==
  {m \in SeqToSet(Bucket(s.messages, chatId)) : m.senderUsername # Me /\ m.status # "read"}

\* markAsRead(peerUsername): it issues the read of the conversation's rows;
\* the rest runs when that read completes (MarkAsReadContinue).
MarkAsRead(peer) ==
  /\ phase = "mounted"
  /\ IF myUsername = NoUser
     THEN UNCHANGED imports
     ELSE /\ Pending < limits.queue
          /\ imports' = Append(imports,
                 [StoreOp("markAsRead.toArray", dmChatId(myUsername, peer), <<>>, {}, peer)
                    EXCEPT !.idle = \/ UnreadInMemory(state, dmChatId(myUsername, peer)) = {}
                                    \/ ~IsOpen(readyState, wsRef)])
  /\ sent' = <<>>
  /\ last' = [op |-> "markAsRead", peer |-> peer,
              chatId |-> IF myUsername = NoUser THEN "" ELSE dmChatId(myUsername, peer),
              wasOpen |-> IsOpen(readyState, wsRef)]
  /\ UNCHANGED <<state, phase, propVars, connVars, isMountedRef, reconnectAttemptsRef,
                 timerVars, pingVars, typingTimerRef, tableVars, dbQueue, idVars,
                 reconnectCalls, histVars>>

\* The clearing requests that are pending, issued or not yet.
PendingClears ==
  Len(SelectSeq(imports \o dbQueue, LAMBDA op : op.op \in {"delete", "clear"}))

\* clearChat(chatId): CLEAR_CHAT is dispatched at once, the delete request
\* is left to the import().then callback. The callers stop clearing once
\* limits.clears of their requests have removed rows or are pending.
ClearChat(chatId) ==
  /\ phase = "mounted"
  /\ Pending < limits.queue
  /\ clearsDone + PendingClears < limits.clears
  /\ state' = Dispatched(CLEAR_CHAT(state, [chatId |-> chatId]))
  /\ imports' = Append(imports, StoreOp("delete", chatId, <<>>, {}, ""))
  /\ sent' = <<>>
  /\ last' = [op |-> "clearChat", chatId |-> chatId]
  /\ UNCHANGED <<phase, propVars, connVars, isMountedRef, reconnectAttemptsRef,
                 timerVars, pingVars, typingTimerRef, tableVars, dbQueue, idVars,
                 reconnectCalls, histVars>>

\* clearAllDatabase(), as FloatingTabBar's handleClearData and handleLogout
\* and AuthContext's logout call it, with the hook mounted or not: the
\* request db.messages.clear() is issued (the contacts and userProfile
\* tables are not part of the model).
clearAllDatabase ==
  /\ Pending < limits.queue
  /\ clearsDone + PendingClears < limits.clears
  /\ dbQueue' = Append(dbQueue, StoreOp("clear", "", <<>>, {}, ""))
  /\ sent' = <<>>
  /\ last' = [op |-> "clearAllDatabase"]
  /\ UNCHANGED <<state, phase, propVars, connVars, isMountedRef, reconnectAttemptsRef,
                 timerVars, pingVars, typingTimerRef, tableVars, imports, idVars,
                 reconnectCalls, histVars>>

\* clearChatMessages(chatId), the store's own export: the same delete
\* request as clearChat's, with no CLEAR_CHAT dispatched.
clearChatMessages(chatId) ==
  /\ Pending < limits.queue
  /\ clearsDone + PendingClears < limits.clears
  /\ dbQueue' = Append(dbQueue, StoreOp("delete", chatId, <<>>, {}, ""))
  /\ sent' = <<>>
  /\ last' = [op |-> "clearChatMessages", chatId |-> chatId]
  /\ UNCHANGED <<state, phase, propVars, connVars, isMountedRef, reconnectAttemptsRef,
                 timerVars, pingVars, typingTimerRef, tableVars, imports, idVars,
                 reconnectCalls, histVars>>

\* The callback of the oldest import("../services/db").then(...) runs: the
\* store request it holds is issued.
ImportThen ==
  /\ imports # <<>>
  /\ dbQueue' = Append(dbQueue, Head(imports))
  /\ imports' = Tail(imports)
  /\ sent' = <<>>
  /\ last' = [op |-> "importThen", dbOp |-> Head(imports).op, chatId |-> Head(imports).chatId]
  /\ UNCHANGED <<state, phase, propVars, connVars, isMountedRef, reconnectAttemptsRef,
                 timerVars, pingVars, typingTimerRef, tableVars, idVars, reconnectCalls,
                 histVars>>

\* The dashboard's clear button for the open conversation:
\* onClearChat={() => clearChat(activePeer.username)}
onClearChat(peerUsername) == ClearChat(peerUsername)

\* ------------------------------------------------------------------------
\* The Dexie messages table
\* ------------------------------------------------------------------------
RowIndex(rows, localId) ==
  IF \E i \in 1 .. Len(rows) : rows[i].localId = localId
  THEN CHOOSE i \in 1 .. Len(rows) :
         /\ rows[i].localId = localId
         /\ \A j \in 1 .. (i - 1) : rows[j].localId # localId
  ELSE 0

\* db.messages.update(existing.id, msg): the keys msg has overwrite the row's.
\* No object the hook hands over has a serverId key.
UpdateRow(row, msg) ==
  [row EXCEPT !.chatId = msg.chatId,
              !.senderUsername = msg.senderUsername,
              !.receiverUsername = msg.receiverUsername,
              !.text = msg.text,
              !.timestamp = msg.timestamp,
              !.status = msg.status,
              !.serverId = IF msg.serverId = NoId THEN @ ELSE msg.serverId]

\* The find that never sees the row: always db.messages.add(msg).
upsertMessage_AlwaysAdd(rows, msg) == Append(rows, msg)

\* upsertMessage(msg), one transaction.
upsertMessage(rows, msg) ==
  LET i == RowIndex(rows, msg.localId)
  IN  IF i # 0
      THEN [rows EXCEPT ![i] = UpdateRow(rows[i], msg)]
      ELSE Append(rows, msg)

RECURSIVE bulkUpsertMessages(_, _)
\* bulkUpsertMessages(msgs), one transaction.
bulkUpsertMessages(rows, msgs) ==
  IF msgs = <<>> THEN rows
  ELSE bulkUpsertMessages(upsertMessage(rows, Head(msgs)), Tail(msgs))

\* The transaction of the messages_read handler.
ModifyRead(rows, chatId, messageIds) ==
  [i \in 1 .. Len(rows) |->
     IF rows[i].chatId = chatId /\ MatchesIds(rows[i], messageIds)
     THEN [rows[i] EXCEPT !.status = "read"]
     ELSE rows[i]]

\* markChatRead, first half: the rows its query selects, by primary key.
ToMark(rows, keys, chatId, readerUsername) ==
  {keys[j] : j \in {i \in 1 .. Len(rows) :
      /\ rows[i].chatId = chatId
      /\ rows[i].senderUsername # readerUsername
      /\ rows[i].status # "read"}}

\* markChatRead, second half: Promise.all(toMark.map(m => db.messages.update(m.id, ...))),
\* one request per selected row, issued in row order, each naming the
\* primary key the query read; each completes, or fails, on its own.
UpdateOps(rows, keys, chatId, readerUsername) ==
  LET hit == SelectSeq(keys, LAMBDA k : k \in ToMark(rows, keys, chatId, readerUsername))
  IN  [i \in 1 .. Len(hit) |->
         [StoreOp("markChatRead.update", chatId, <<>>, {}, "") EXCEPT !.key = hit[i]]]

\* db.messages.update(id, { status: 'read' }): the row whose primary key is
\* id, if the table still has one.
UpdateRead(rows, keys, id) ==
  [i \in 1 .. Len(rows) |->
     IF keys[i] = id THEN [rows[i] EXCEPT !.status = "read"] ELSE rows[i]]

\* db.messages.where("chatId").equals(chatId).delete()
DeleteChat(rows, chatId) == SelectSeq(rows, LAMBDA r : r.chatId # chatId)

\* The primary keys of the rows that delete() leaves.
DeleteChatIds(rows, keys, chatId) ==
  LET kept == SelectSeq([i \in 1 .. Len(rows) |-> i], LAMBDA i : rows[i].chatId # chatId)
  IN  [j \in 1 .. Len(kept) |-> keys[kept[j]]]

\* db.messages.add(msg), n times: each new row takes the generator's next key.
AddedIds(keys, next, n) == keys \o [i \in 1 .. n |-> next + i - 1]

\* getRecentMessagesForHydration(): reverse().limit(1000), reversed again:
\* the newest 1000 rows, oldest first.
getRecentMessagesForHydration(rows) ==
  IF Len(rows) <= HYDRATION_LIMIT THEN rows
  ELSE SubSeq(rows, Len(rows) - HYDRATION_LIMIT + 1, Len(rows))

\* markAsRead: the identifiers its query resolves, in row order.
ResolvedId(m) == IF m.serverId # NoId /\ m.serverId # EmptyId THEN m.serverId ELSE m.localId

UnreadFromPeer(rows, chatId, me) ==
  LET hit == SelectSeq(rows, LAMBDA m :
                 /\ m.chatId = chatId
                 /\ m.senderUsername # me
                 /\ m.status # "read"
                 /\ ResolvedId(m) # EmptyId)
  IN  [i \in 1 .. Len(hit) |-> ResolvedId(hit[i])]

\* markAsRead after its toArray() resolved with the rows of the chat: the
\* snapshot, the frames and the store operation it leaves behind.
MarkAsReadContinue(op, s) ==
  LET unreadFromPeer == UnreadFromPeer(db, op.chatId, Me)
  IN  IF unreadFromPeer = <<>> \/ ~IsOpen(readyState, wsRef)
      THEN [state |-> s, out |-> <<>>, ops |-> <<>>]
      ELSE [state |-> MESSAGES_MARKED_READ(s, [chatId |-> op.chatId, readerUsername |-> Me]),
            out |-> Transmit(readyState, wsRef,
                             [type |-> "mark_read", to |-> op.who,
                              messageIds |-> unreadFromPeer]),
            ops |-> <<StoreOp("markChatRead", op.chatId, <<>>, {}, Me)>>]

\* The requests that run in a read-only transaction.
ReadOnly(op) ==
  op.op \in {"getRecentMessagesForHydration", "markAsRead.toArray", "markChatRead"}

\* The positions of the pending requests that can settle next. A readwrite
\* transaction on db.messages waits for every transaction created before it,
\* and a read-only one for every readwrite one created before it: the oldest
\* request can always settle, a later one when it and all before it only read.
Settleable(queue) ==
  {i \in 1 .. Len(queue) : i = 1 \/ \A j \in 1 .. i : ReadOnly(queue[j])}

\* The pending store operation at position i settles; ok = FALSE when it
\* fails (the promise rejects and the table is left as it was). Rows added
\* take the generator's next keys, which no delete or clear gives back.
DbSettle(i, ok) ==
  /\ i \in Settleable(dbQueue)
  /\ LET op   == dbQueue[i]
         rest == SubSeq(dbQueue, 1, i - 1) \o SubSeq(dbQueue, i + 1, Len(dbQueue))
         cont == MarkAsReadContinue(op, state)
         rows == IF ~ok THEN db
                 ELSE CASE op.op = "upsertMessage"      -> upsertMessage(db, op.msgs[1])
                        [] op.op = "bulkUpsertMessages" -> bulkUpsertMessages(db, op.msgs)
                        [] op.op = "modifyRead"         -> ModifyRead(db, op.chatId, op.ids)
                        [] op.op = "markChatRead.update" -> UpdateRead(db, dbIds, op.key)
                        [] op.op = "delete"             -> DeleteChat(db, op.chatId)
                        [] op.op = "clear"              -> <<>>
                        [] OTHER                        -> db
         added == IF Len(rows) > Len(db) THEN Len(rows) - Len(db) ELSE 0
     IN
     /\ db' = rows
     /\ dbIds' = IF ~ok THEN dbIds
                 ELSE CASE op.op = "delete" -> DeleteChatIds(db, dbIds, op.chatId)
                        [] op.op = "clear"  -> <<>>
                        [] OTHER            -> AddedIds(dbIds, nextId, added)
     /\ nextId' = nextId + added
     /\ clearsDone' = IF Len(rows) < Len(db) THEN clearsDone + 1 ELSE clearsDone
     /\ dbQueue' =
          IF ok /\ op.op = "markAsRead.toArray" THEN rest \o cont.ops
          ELSE IF ok /\ op.op = "markChatRead"
               THEN rest \o UpdateOps(db, dbIds, op.chatId, op.who)
          ELSE rest
     /\ state' =
          IF op.op = "getRecentMessagesForHydration"
          THEN IF ok
               THEN IF isMountedRef
                    THEN Dispatched(DB_HYDRATED(state, getRecentMessagesForHydration(db)))
                    ELSE state
               ELSE Dispatched(DB_HYDRATED(state, <<>>))
          ELSE IF ok /\ op.op = "markAsRead.toArray" THEN Dispatched(cont.state)
          ELSE state
     /\ sent' = IF ok /\ op.op = "markAsRead.toArray" THEN cont.out ELSE <<>>
     /\ last' = [op |-> "dbStep", dbOp |-> op.op, ok |-> ok, chatId |-> op.chatId,
                 who |-> op.who, idle |-> op.idle, pos |-> i,
                 wasOpen |-> IsOpen(readyState, wsRef)]
  /\ UNCHANGED <<phase, propVars, connVars, isMountedRef, reconnectAttemptsRef,
                 timerVars, pingVars, typingTimerRef, imports, clock, uuidCount,
                 reconnectCalls, histVars>>

\* A pending store operation that can settle does.
DbStep(ok) == \E i \in 1 .. Len(dbQueue) : DbSettle(i, ok)

\* ------------------------------------------------------------------------
\* Inputs
\* ------------------------------------------------------------------------
PropChoices == {<<NoToken, NoUser>>, <<NoToken, Me>>, <<"t1", Me>>, <<"t2", Me>>}

BobChat == dmChatId(Me, "bob")
ServerIds == {"s1", "s2"}

\* Frames that touch only the connection-level part of the snapshot.
PresenceFrames ==
  {[type |-> "typing_start", from |-> "bob"], [type |-> "typing_stop", from |-> "bob"]}

\* Frames that JSON.parse accepts and that lack a field of their type: the
\* handler reads the absent field as undefined.
MalformedFrames ==
  {[type |-> "typing_start", from |-> NoId],
   [type |-> "pending_messages",
    messages |-> <<WireMessage("s1", BobChat, "bob", Me, "hi", 2)>>,
    messageIds |-> NoId]}

StatusFrames ==
  {[type |-> "user_status_change", username |-> "bob", status |-> st] :
     st \in {"online", "offline"}}

ErrorFrames ==
  {[type |-> "error", code |-> 4000, message |-> "bad request"],
   [type |-> "error", code |-> 5000, message |-> "internal"]}

PongFrames == {[type |-> "pong", ts |-> 1]}

\* ------------------------------------------------------------------------
\* Specification of the connection lifecycle: effects, prop changes, socket
\* events, timers, reconnect(), and the frames that do not reach the store.
\* ------------------------------------------------------------------------
ConnFrame(h) ==
  \/ \E f \in StatusFrames : OnMessage(h, TRUE, f)
  \/ \E f \in ErrorFrames : OnMessage(h, TRUE, f)
  \/ \E f \in PongFrames : OnMessage(h, TRUE, f)
  \/ OnMessage(h, FALSE, [type |-> "<bad json>"])

Init ==
  \E tok \in {NoToken, "t1"}, user \in {NoUser, Me} :
    Rendered(tok, user, Limits(LifecycleHandles, MaxReconnects, MaxPropChanges, 0, MaxQueue))

Next ==
  \/ Mount
  \/ \E p \in PropChoices : SetProps(p[1], p[2])
  \/ Unmount
  \/ Reconnect
  \/ \E h \in Handles : OnOpen(h)
  \/ \E h \in Handles, code \in CloseCodes : OnClose(h, code)
  \/ \E t \in timers : ReconnectTimerFires(t)
  \/ PingFires
  \/ \E h \in Handles : ConnFrame(h)
  \/ \E ok \in BOOLEAN : DbStep(ok)

Spec == Init /\ [][Next]_vars

\* ------------------------------------------------------------------------
\* Specification of the backoff policy: one mounted hook with credentials,
\* whose sockets open and close, whose backoff timers fire, and whose caller
\* may call reconnect().
\* ------------------------------------------------------------------------
InitBackoff == Rendered("t1", Me, Limits(MaxHandles, BackoffReconnects, 0, 0, MaxQueue))

NextBackoff ==
  \/ Mount
  \/ Reconnect
  \/ \E h \in Handles : OnOpen(h)
  \/ \E h \in Handles, code \in CloseCodes : OnClose(h, code)
  \/ \E t \in timers : ReconnectTimerFires(t)
  \/ \E ok \in BOOLEAN : DbStep(ok)

SpecBackoff == InitBackoff /\ [][NextBackoff]_vars

\* ------------------------------------------------------------------------
\* Specification of the message ledger: one mounted hook with credentials,
\* its socket opening and closing normally, message frames arriving on it,
\* and the caller sending and clearing. The store is out of service here:
\* every store operation is rejected before the next event is handled.
\* ------------------------------------------------------------------------
\* new_message / pending_messages: a message of bob's
PeerWire == {WireMessage("s1", BobChat, "bob", Me, "hi", 2)}

\* message_sent: the server's copy of a message of ours
OwnWire == {WireMessage("s2", BobChat, Me, "bob", "hi", ts) : ts \in Timestamps}

AckLocalIds == {"u1", "u2"}

ReadIdSets == {{"u1"}, {"s2"}, {"s1", "u2"}}

LedgerFrame(h) ==
  \/ \E m \in PeerWire : OnMessage(h, TRUE, [type |-> "new_message", message |-> m])
  \/ \E m \in OwnWire, l \in AckLocalIds :
       OnMessage(h, TRUE, [type |-> "message_sent", localId |-> l, message |-> m])
  \/ \E ids \in ReadIdSets :
       OnMessage(h, TRUE, [type |-> "messages_read", chatId |-> BobChat,
                           messageIds |-> ids, by |-> "bob"])
  \/ \E m \in PeerWire :
       OnMessage(h, TRUE, [type |-> "pending_messages", messages |-> <<m>>,
                           messageIds |-> <<m.id>>])
  \/ \E m \in PeerWire, o \in OwnWire :
       OnMessage(h, TRUE, [type |-> "history", chatId |-> BobChat, with |-> "bob",
                           messages |-> <<o, m>>])

InitLedger == Rendered("t1", Me, Limits(LedgerHandles, 0, 0, MaxSends, MaxQueue))

StoreIdle == dbQueue = <<>> /\ imports = <<>>

NextLedger ==
  \/ StoreIdle /\ Mount
  \/ StoreIdle /\ \E h \in Handles : OnOpen(h)
  \/ StoreIdle /\ \E h \in Handles : OnClose(h, CLOSE_NORMAL)
  \/ StoreIdle /\ \E h \in Handles : LedgerFrame(h)
  \/ StoreIdle /\ \E text \in {"hi", " "} : SendMessage("bob", text, clock)
  \/ StoreIdle /\ ClearChat(BobChat)
  \/ ImportThen
  \/ DbStep(FALSE)

SpecLedger == InitLedger /\ [][NextLedger]_vars

\* ------------------------------------------------------------------------
\* Specification of the store: as the ledger, with two messages of bob's
\* arriving and the caller reading them, with store operations that lag
\* behind the events and may fail, and with the table being wiped.
\* ------------------------------------------------------------------------
InitStore == Rendered("t1", Me, Limits(LedgerHandles, 0, 0, MaxSends, MaxQueue))

NextStore ==
  \/ Mount
  \/ \E h \in Handles : OnOpen(h)
  \/ \E h \in Handles : OnClose(h, CLOSE_NORMAL)
  \/ \E h \in Handles, m \in PeerWire \cup {WireMessage("s3", BobChat, "bob", Me, "yo", 2)} :
       OnMessage(h, TRUE, [type |-> "new_message", message |-> m])
  \/ SendMessage("bob", "hi", clock)
  \/ MarkAsRead("bob")
  \/ clearAllDatabase
  \/ clearChatMessages(BobChat)
  \/ ImportThen
  \/ \E ok \in BOOLEAN : DbStep(ok)

SpecStore == InitStore /\ [][NextStore]_vars

\* ------------------------------------------------------------------------
\* Specification of the unread count: as the store specification, with one
\* message of bob's to the signed-in user and one message the server passes
\* on from a conversation between bob and carol.
\* ------------------------------------------------------------------------
NextUnread ==
  \/ Mount
  \/ \E h \in Handles : OnOpen(h)
  \/ \E h \in Handles : OnClose(h, CLOSE_NORMAL)
  \/ \E h \in Handles, m \in PeerWire \cup {WireMessage("s5", "dm:bob:carol", "carol", "bob", "yo", 2)} :
       OnMessage(h, TRUE, [type |-> "new_message", message |-> m])
  \/ SendMessage("bob", "hi", clock)
  \/ MarkAsRead("bob")
  \/ clearAllDatabase
  \/ ImportThen
  \/ \E ok \in BOOLEAN : DbStep(ok)

SpecUnread == InitStore /\ [][NextUnread]_vars

\* ------------------------------------------------------------------------
\* Specification of the display order: one mounted hook with credentials
\* and one socket; frames that carry messages with timestamps in any order
\* arrive and the caller sends. The store is out of service.
\* ------------------------------------------------------------------------
\* history: bob's message s1 and our message s2, with any timestamps
HistoryWire ==
  {WireMessage("s1", BobChat, "bob", Me, "hi", ts) : ts \in Timestamps}
    \cup {WireMessage("s2", BobChat, Me, "bob", "hi", ts) : ts \in Timestamps}

HistoryFrames ==
  {[type |-> "history", chatId |-> BobChat, with |-> "bob", messages |-> <<p[1], p[2]>>] :
     p \in {q \in HistoryWire \X HistoryWire : q[1].id # q[2].id}}

\* pending_messages: a backlog of two messages of bob's, newest first or oldest first
PendingFrames ==
  {[type |-> "pending_messages",
    messages |-> <<WireMessage("s3", BobChat, "bob", Me, "yo", ta),
                   WireMessage("s1", BobChat, "bob", Me, "hi", tb)>>,
    messageIds |-> <<"s3", "s1">>] : ta \in Timestamps, tb \in Timestamps}

OrderFrame(h) ==
  \/ \E f \in HistoryFrames : OnMessage(h, TRUE, f)
  \/ \E f \in PendingFrames : OnMessage(h, TRUE, f)
  \/ OnMessage(h, TRUE, [type |-> "new_message",
                         message |-> WireMessage("s3", BobChat, "bob", Me, "yo", 1)])
  \/ \E m \in OwnWire \cup {WireMessage("s4", BobChat, Me, "bob", "hi", 2)} :
       OnMessage(h, TRUE, [type |-> "message_sent", localId |-> Uuid(1), message |-> m])

InitOrder == Rendered("t1", Me, Limits(LedgerHandles, 0, 0, MaxSends, MaxQueue))

NextOrder ==
  \/ StoreIdle /\ Mount
  \/ StoreIdle /\ \E h \in Handles : OnOpen(h)
  \/ StoreIdle /\ \E h \in Handles : OnClose(h, CLOSE_NORMAL)
  \/ StoreIdle /\ \E h \in Handles : OrderFrame(h)
  \/ StoreIdle /\ SendMessage("bob", "hi", clock)
  \/ ImportThen
  \/ DbStep(FALSE)

SpecOrder == InitOrder /\ [][NextOrder]_vars

\* ------------------------------------------------------------------------
\* Specification of the backlog flush: a mounted hook whose caller may call
\* reconnect(); pending_messages, user_status_change and error frames arrive
\* on the current socket, and reach a socket that connect() has called
\* close() on and that has not closed yet. The store is out of service.
\* ------------------------------------------------------------------------
InitBacklog == Rendered("t1", Me, Limits(BacklogHandles, BacklogReconnects, 0, 0, MaxQueue))

NextBacklog ==
  \/ StoreIdle /\ Mount
  \/ StoreIdle /\ Reconnect
  \/ StoreIdle /\ \E h \in Handles : OnOpen(h)
  \/ StoreIdle /\ \E h \in Handles : OnClose(h, CLOSE_NORMAL)
  \/ StoreIdle /\ \E h \in Handles :
       \E f \in PendingFrames \cup StatusFrames \cup ErrorFrames : OnMessage(h, TRUE, f)
  \/ StoreIdle /\ \E h \in Handles :
       \E f \in PendingFrames \cup StatusFrames \cup ErrorFrames : FrameDropped(h, f)
  \/ DbStep(FALSE)

SpecBacklog == InitBacklog /\ [][NextBacklog]_vars

\* ------------------------------------------------------------------------
\* Specification of the sockets and timers of the connection: the lifecycle
\* of Spec with the server's error frames as the only inbound frames; the
\* store is out of service.
\* ------------------------------------------------------------------------
NextConn ==
  \/ StoreIdle /\ Mount
  \/ StoreIdle /\ \E p \in PropChoices : SetProps(p[1], p[2])
  \/ StoreIdle /\ Unmount
  \/ StoreIdle /\ Reconnect
  \/ StoreIdle /\ \E h \in Handles : OnOpen(h)
  \/ StoreIdle /\ \E h \in Handles, code \in CloseCodes : OnClose(h, code)
  \/ StoreIdle /\ \E t \in timers : ReconnectTimerFires(t)
  \/ StoreIdle /\ PingFires
  \/ StoreIdle /\ \E h \in Handles : \E f \in ErrorFrames : OnMessage(h, TRUE, f)
  \/ DbStep(FALSE)

SpecConn == Init /\ [][NextConn]_vars

\* ------------------------------------------------------------------------
\* Specification of the typing indicator: the hook is mounted, re-rendered
\* with other props and unmounted; the caller may call reconnect(); bob's
\* typing_start and typing_stop frames arrive and the expiry timers fire.
\* The store is out of service.
\* ------------------------------------------------------------------------
NextTyping ==
  \/ StoreIdle /\ Mount
  \/ StoreIdle /\ \E p \in PropChoices : SetProps(p[1], p[2])
  \/ StoreIdle /\ Unmount
  \/ StoreIdle /\ Reconnect
  \/ StoreIdle /\ \E h \in Handles : OnOpen(h)
  \/ StoreIdle /\ \E h \in Handles : OnClose(h, CLOSE_NORMAL)
  \/ StoreIdle /\ \E h \in Handles : \E f \in PresenceFrames : OnMessage(h, TRUE, f)
  \/ StoreIdle /\ \E h \in Handles : \E f \in MalformedFrames : OnMessage(h, TRUE, f)
  \/ StoreIdle /\ \E h \in Handles : OnMessage(h, FALSE, [type |-> "<bad json>"])
  \/ StoreIdle /\ \E p \in typingTimerRef : TypingTimerFires(p)
  \/ DbStep(FALSE)

SpecTyping == Init /\ [][NextTyping]_vars

\* ------------------------------------------------------------------------
\* Specification of the durable view: sends, their acknowledgements, bob's
\* message live and in a backlog, and the caller clearing, on a socket that
\* stays open, with a store in service. Every store operation succeeds; the
\* requests left to an import().then callback are issued later than the call
\* that made them, while further events may already be handled.
\* ------------------------------------------------------------------------
NextDurable ==
  \/ Mount
  \/ \E h \in Handles : OnOpen(h)
  \/ \E h \in Handles, m \in PeerWire :
       OnMessage(h, TRUE, [type |-> "new_message", message |-> m])
  \/ \E h \in Handles, m \in PeerWire :
       OnMessage(h, TRUE, [type |-> "pending_messages", messages |-> <<m>>,
                           messageIds |-> <<m.id>>])
  \/ \E h \in Handles, m \in OwnWire :
       OnMessage(h, TRUE, [type |-> "message_sent", localId |-> Uuid(1), message |-> m])
  \/ SendMessage("bob", "hi", clock)
  \/ onClearChat("bob")
  \/ ClearChat(BobChat)
  \/ clearAllDatabase
  \/ ImportThen
  \/ DbStep(TRUE)

SpecDurable == InitLedger /\ [][NextDurable]_vars

\* ------------------------------------------------------------------------
\* Specification of hydration: the store holds rows of an earlier session
\* (bob's message s1 and the user's message s2, as history or a live frame
\* left them); the hook mounts, and the hydration read completes, or fails,
\* before or after frames that carry the same messages have been handled.
\* ------------------------------------------------------------------------
StoredPeerRows ==
  {ChatMessage("s1", NoId, BobChat, "bob", Me, "hi", ts, st) :
     ts \in Timestamps, st \in {"delivered", "read"}}

StoredOwnRows ==
  {ChatMessage("s2", NoId, BobChat, Me, "bob", "hi", 1, st) : st \in {"sent", "read"}}

InitHydration ==
  \E a \in StoredPeerRows, b \in StoredOwnRows :
    \E rows \in {<<a>>, <<a, b>>, <<b, a>>} :
      RenderedOver("t1", Me, Limits(LedgerHandles, 0, 0, 0, MaxQueue), rows)

NextHydration ==
  \/ Mount
  \/ \E h \in Handles : OnOpen(h)
  \/ \E h \in Handles : OnClose(h, CLOSE_NORMAL)
  \/ \E h \in Handles, m \in PeerWire :
       OnMessage(h, TRUE, [type |-> "new_message", message |-> m])
  \/ \E h \in Handles, m \in PeerWire, o \in OwnWire :
       OnMessage(h, TRUE, [type |-> "history", chatId |-> BobChat, with |-> "bob",
                           messages |-> <<o, m>>])
  \/ clearAllDatabase
  \/ \E ok \in BOOLEAN : DbStep(ok)

SpecHydration == InitHydration /\ [][NextHydration]_vars

\* ------------------------------------------------------------------------
\* Specification of sending: a hook rendered with or without an identity,
\* its socket opening and closing, and the caller sending texts that are
\* blank or not, at any moment, while bob's message may arrive. The store is
\* out of service.
\* ------------------------------------------------------------------------
InitSend ==
  \E user \in {Me, NoUser} :
    Rendered("t1", user, Limits(LedgerHandles, 0, 0, MaxSends, MaxQueue))

NextSend ==
  \/ Mount
  \/ \E h \in Handles : OnOpen(h)
  \/ \E h \in Handles : OnClose(h, CLOSE_NORMAL)
  \/ \E h \in Handles, m \in PeerWire :
       OnMessage(h, TRUE, [type |-> "new_message", message |-> m])
  \/ \E to \in Peers, text \in {"hi", " hi ", " "} : SendMessage(to, text, clock)
  \/ ImportThen
  \/ DbStep(FALSE)

SpecSend == InitSend /\ [][NextSend]_vars

\* ------------------------------------------------------------------------
\* Specification of the hydration gate: a hook rendered with or without
\* token and identity, whose props change and which may unmount, with one
\* socket, bob's message arriving and the caller clearing. Every read of
\* the store settles, with the rows or with a rejection.
\* ------------------------------------------------------------------------
InitLoad ==
  \E tok \in {NoToken, "t1"}, user \in {NoUser, Me} :
    Rendered(tok, user, Limits(LedgerHandles, 0, LoadPropChanges, 0, MaxQueue))

NextLoad ==
  \/ Mount
  \/ \E p \in PropChoices : SetProps(p[1], p[2])
  \/ Unmount
  \/ \E h \in Handles : OnOpen(h)
  \/ \E h \in Handles : OnClose(h, CLOSE_NORMAL)
  \/ \E h \in Handles, m \in PeerWire :
       OnMessage(h, TRUE, [type |-> "new_message", message |-> m])
  \/ ClearChat(BobChat)
  \/ clearAllDatabase
  \/ ImportThen
  \/ \E ok \in BOOLEAN : DbStep(ok)

\* IndexedDB settles every request: the oldest pending operation settles.
SpecLoad ==
  InitLoad /\ [][NextLoad]_vars /\ WF_vars(\E ok \in BOOLEAN : DbSettle(1, ok))

\* ------------------------------------------------------------------------
\* ChatDashboard: the derived conversation view
\* ------------------------------------------------------------------------
\* cid.split(":")
split(cid) ==
  CASE cid = "dm:alice:alice" -> <<"dm", "alice", "alice">>
    [] cid = "dm:alice:bob"   -> <<"dm", "alice", "bob">>
    [] cid = "dm:alice:carol" -> <<"dm", "alice", "carol">>
    [] cid = "dm:bob:bob"     -> <<"dm", "bob", "bob">>
    [] cid = "dm:bob:carol"   -> <<"dm", "bob", "carol">>
    [] cid = "dm:carol:carol" -> <<"dm", "carol", "carol">>
    [] OTHER                  -> <<cid>>

\* msgs.filter(m => m.senderUsername !== authUser.username && m.status !== "read").length
unreadCount(msgs, self) ==
  Len(SelectSeq(msgs, LAMBDA m : m.senderUsername # self /\ m.status # "read"))

\* parts.find(p => p !== "dm" && p !== authUser.username.toLowerCase())
peerUsername(cid, self) ==
  LET parts == split(cid)
      found == SelectSeq(parts, LAMBDA p : p # "dm" /\ p # toLowerCase(self))
  IN  IF found = <<>> THEN NoId ELSE found[1]

\* One entry of the conversation list.
Conversation(peer, msgs, s, self) ==
  [peerUsername |-> peer,
   lastMessage  |-> IF msgs = <<>> THEN NoId ELSE msgs[Len(msgs)],
   unreadCount  |-> unreadCount(msgs, self),
   isTyping     |-> IF peer \in DOMAIN s.typingPeers THEN s.typingPeers[peer] ELSE FALSE]

\* The conversations memo for snapshot s, the signed-in user and the contact
\* list, as a map from peerUsername to its entry (the list's order, by the
\* last message's timestamp, is left out). A contact's entry is built from
\* the bucket dmChatId(self, contact); the loop over Object.entries(messages)
\* then gives every other peer the first bucket, in key order, whose key
\* names it.
conversations(s, self, contacts) ==
  LET surfaced == {cid \in DOMAIN s.messages :
                     /\ peerUsername(cid, self) # NoId
                     /\ peerUsername(cid, self) \notin contacts}
      CidOf(u) == IF u \in contacts THEN dmChatId(self, u)
                  ELSE SelectSeq(s.messageKeys,
                                 LAMBDA cid : cid \in surfaced /\ peerUsername(cid, self) = u)[1]
  IN  IF self = NoUser THEN <<>>
      ELSE [u \in contacts \cup {peerUsername(cid, self) : cid \in surfaced} |->
              Conversation(u, Bucket(s.messages, CidOf(u)), s, self)]

\* ------------------------------------------------------------------------
\* Specification of the conversation key: callers compute dmChatId for
\* usernames in the spellings a login form or a server frame may carry.
\* ------------------------------------------------------------------------
Spellings == {"alice", "Alice", "ALICE", "bob", "Bob", "BOB", "carol", "Carol", "CAROL"}

\* A call dmChatId(a, b); the result of the call before it is kept beside it.
DmChatIdCall(a, b) ==
  /\ last' = [op |-> "dmChatId", a |-> a, b |-> b, key |-> dmChatId(a, b),
              prevA   |-> IF last.op = "dmChatId" THEN last.a ELSE NoId,
              prevB   |-> IF last.op = "dmChatId" THEN last.b ELSE NoId,
              prevKey |-> IF last.op = "dmChatId" THEN last.key ELSE NoId]
  /\ UNCHANGED <<state, phase, propVars, connVars, isMountedRef, reconnectAttemptsRef,
                 timerVars, pingVars, typingTimerRef, sent, storeVars, idVars,
                 reconnectCalls, histVars>>

NextKeys == \E a \in Spellings, b \in Spellings : DmChatIdCall(a, b)

SpecKeys == InitStore /\ [][NextKeys]_vars

\* ========================================================================
\* Properties
\* ========================================================================
\* What the caller sees of the snapshot.
Snapshot(s) ==
  [connectionStatus |-> s.connectionStatus, messages |-> s.messages,
   typingPeers |-> s.typingPeers, peerStatuses |-> s.peerStatuses, error |-> s.error]

\* ------------------------------------------------------------------------
\* C1. Once connect() has superseded a handle with a newer one, a frame that
\* arrives late on the superseded handle changes nothing in the snapshot and
\* makes the hook send nothing.
\* ------------------------------------------------------------------------
C1_LateFrameIgnored ==
  [][(last'.op \in {"onmessage", "frameDropped"} /\ last'.superseded)
       => (Snapshot(state') = Snapshot(state) /\ sent' = <<>>)]_vars

\* A status frame reached the socket that reconnect() had called close() on,
\* while the newer socket was open: bob's status was not recorded.
C1_Witness ==
  /\ last.op = "frameDropped" /\ last.superseded /\ last.wasMounted
  /\ last.type = "user_status_change"
  /\ readyState[last.ws] = "closing"
  /\ IsOpen(readyState, wsRef)
  /\ state.connectionStatus = "connected"
  /\ "bob" \notin DOMAIN state.peerStatuses
  /\ sent = <<>>

\* ------------------------------------------------------------------------
\* C2. Counting from the last reset of the retry counter, the k-th retry that
\* is scheduled waits min(1000 * 2^(k-1), 30000) ms, i.e. 1000, 2000, 4000,
\* 8000, 16000, 30000; a seventh retry is never scheduled, and the counter
\* stays within 0..6.
\* ------------------------------------------------------------------------
RetrySchedule == <<1000, 2000, 4000, 8000, 16000, 30000>>

C2_BackoffSchedule ==
  /\ reconnectAttemptsRef \in 0 .. MAX_RECONNECT_ATTEMPTS
  /\ Len(delays) = reconnectAttemptsRef
  /\ Len(delays) <= Len(RetrySchedule)
  /\ \A k \in 1 .. Len(delays) : delays[k] = RetrySchedule[k]
  /\ \A t \in timers : \E k \in 1 .. Len(RetrySchedule) : t.delay = RetrySchedule[k]

\* Six retries were scheduled and the seventh failure has given up.
C2_Witness ==
  /\ delays = RetrySchedule
  /\ reconnectAttemptsRef = MAX_RECONNECT_ATTEMPTS
  /\ last.op = "onclose"
  /\ state.error = ExhaustedMsg
  /\ timers = {}

\* ------------------------------------------------------------------------
\* C3. After the retries are exhausted (the snapshot's error is the exhausted
\* message) no connection attempt is made until reconnect() is called;
\* reconnect() resets the retry counter to 0 and opens a new handle at once.
\* ------------------------------------------------------------------------
C3_ExhaustionIsTerminal ==
  [][/\ (state.error = ExhaustedMsg /\ handleCount' > handleCount)
          => last'.op = "reconnect"
     /\ (last'.op = "reconnect" /\ last'.made)
          => (reconnectAttemptsRef' = 0 /\ handleCount' = handleCount + 1
              /\ wsRef' = handleCount' /\ readyState'[wsRef'] = "connecting")]_vars

\* ------------------------------------------------------------------------
\* C4. When the current handle closes with code 4001 or 1006 the status
\* becomes auth_failed, no backoff timer is scheduled and the retry counter is
\* not incremented; and no connection attempt is made afterwards until the
\* caller invokes connect/reconnect again.
\* ------------------------------------------------------------------------
C4_AuthFailureIsTerminal ==
  [][/\ (last'.op = "onclose" /\ last'.current /\ last'.wasMounted
         /\ last'.code \in {CLOSE_AUTH, CLOSE_ABNORMAL})
          => /\ state'.connectionStatus = "auth_failed"
             /\ timers' = timers
             /\ reconnectAttemptsRef' = reconnectAttemptsRef
     /\ (authClosed /\ handleCount' > handleCount)
          => last'.op \in {"reconnect", "mount", "setProps"}]_vars

\* How many messages of a bucket carry a localId.
LocalCount(bucket, localId) ==
  Cardinality({i \in 1 .. Len(bucket) : bucket[i].localId = localId})

\* ------------------------------------------------------------------------
\* C5. A sendMessage that goes out adds exactly one message, with status
\* sending, to the conversation; and a message_sent frame carrying that
\* message's localId, server id S and timestamp T leaves exactly one message
\* with that localId, whose serverId is S, status sent and timestamp T.
\* ------------------------------------------------------------------------
C5_SendThenAck ==
  [][/\ (last'.op = "sendMessage" /\ last'.went)
          => LET old == Bucket(state.messages, last'.chatId)
                 new == Bucket(state'.messages, last'.chatId)
             IN  /\ Len(new) = Len(old) + 1
                 /\ SubSeq(new, 1, Len(old)) = old
                 /\ new[Len(new)].localId = last'.localId
                 /\ new[Len(new)].status = "sending"
                 /\ LocalCount(new, last'.localId) = 1
                 /\ \A c \in DOMAIN state.messages \ {last'.chatId} :
                      Bucket(state'.messages, c) = state.messages[c]
     /\ (/\ last'.op = "onmessage" /\ last'.type = "message_sent" /\ last'.wasMounted
         /\ HasLocalId(Bucket(state.messages, last'.data.message.chatId),
                       last'.data.localId))
          => LET new == Bucket(state'.messages, last'.data.message.chatId)
             IN  /\ LocalCount(new, last'.data.localId) = 1
                 /\ \A i \in 1 .. Len(new) :
                      new[i].localId = last'.data.localId
                        => /\ new[i].serverId = last'.data.message.id
                           /\ new[i].status = "sent"
                           /\ new[i].timestamp = last'.data.message.timestamp]_vars

\* The acknowledgement of a message that was sent has just been applied.
C5_Witness ==
  /\ last.op = "onmessage" /\ last.type = "message_sent"
  /\ uuidCount = 1
  /\ \E i \in 1 .. Len(Bucket(state.messages, BobChat)) :
       LET m == state.messages[BobChat][i]
       IN  /\ m.localId = Uuid(1) /\ m.localId = last.data.localId
           /\ m.serverId = last.data.message.id
           /\ m.status = "sent"
           /\ m.timestamp = last.data.message.timestamp

\* ------------------------------------------------------------------------
\* C6. Applying the same inbound message twice has the same effect as applying
\* it once, whether it comes alone or in a bulk, and no bucket ever holds two
\* messages with the same localId.
\* ------------------------------------------------------------------------
ReplayedMessages ==
  {Incoming(w, Me) : w \in PeerWire}
    \cup {ChatMessage(Uuid(1), NoId, BobChat, Me, "bob", "hi", ts, "sending") :
            ts \in Timestamps}

C6_InboundIdempotent ==
  /\ \A c \in DOMAIN state.messages :
       \A i, j \in 1 .. Len(state.messages[c]) :
         state.messages[c][i].localId = state.messages[c][j].localId => i = j
  /\ \A m \in ReplayedMessages :
       LET once == MESSAGE_ADDED(state, m)
           bulk == MESSAGES_BULK_ADD(state, <<m>>)
       IN  /\ MESSAGE_ADDED(once, m) = once
           /\ LocalCount(Bucket(once.messages, m.chatId), m.localId) = 1
           /\ MESSAGES_BULK_ADD(bulk, <<m>>) = bulk
           /\ LocalCount(Bucket(bulk.messages, m.chatId), m.localId) = 1

\* A new_message frame has just been handled for a message the bucket already
\* held (it has been read since it first came).
C6_Witness ==
  /\ last.op = "onmessage" /\ last.type = "new_message"
  /\ \E i \in 1 .. Len(Bucket(state.messages, BobChat)) :
       /\ state.messages[BobChat][i].localId = last.data.message.id
       /\ state.messages[BobChat][i].status = "read"
  /\ LocalCount(Bucket(state.messages, BobChat), last.data.message.id) = 1

\* ------------------------------------------------------------------------
\* C7. A message the user wrote, as long as no messages_read frame has matched
\* it, never is delivered and never has its status lowered: it only moves
\* sending -> sent -> read, or sending -> failed.
\* ------------------------------------------------------------------------
StatusRank(status) ==
  CASE status = "sending" -> 0
    [] status = "failed"  -> 0
    [] status = "sent"    -> 1
    [] status = "read"    -> 2
    [] OTHER              -> 3

C7_OwnStatusOnlyAdvances ==
  [][\A c \in DOMAIN state'.messages :
       \A j \in 1 .. Len(state'.messages[c]) :
         LET m2 == state'.messages[c][j]
         IN  (m2.senderUsername = Me /\ m2.localId \notin readMatched')
               => /\ m2.status \in {"sending", "sent", "read", "failed"}
                  /\ \A i \in 1 .. Len(Bucket(state.messages, c)) :
                       LET m1 == state.messages[c][i]
                       IN  m1.localId = m2.localId
                             => StatusRank(m2.status) >= StatusRank(m1.status)]_vars

\* An own message that no messages_read frame has matched has gone from
\* sending to sent.
C7_Witness ==
  /\ last.op = "onmessage" /\ last.type = "message_sent"
  /\ Uuid(1) \notin readMatched
  /\ \E i \in 1 .. Len(Bucket(state.messages, BobChat)) :
       /\ state.messages[BobChat][i].localId = Uuid(1)
       /\ state.messages[BobChat][i].senderUsername = Me
       /\ state.messages[BobChat][i].status = "sent"

\* ------------------------------------------------------------------------
\* C8. A messages_read frame for a conversation with identifier list ids sets
\* to read every message of that conversation whose serverId is in ids or,
\* failing that, whose localId is in ids, whatever its status was, and changes
\* no other message.
\* ------------------------------------------------------------------------
C8_ReadConfirmation ==
  [][(last'.op = "onmessage" /\ last'.type = "messages_read" /\ last'.wasMounted)
       => /\ DOMAIN state'.messages = DOMAIN state.messages
          /\ \A c \in DOMAIN state.messages :
               /\ Len(state'.messages[c]) = Len(state.messages[c])
               /\ \A i \in 1 .. Len(state.messages[c]) :
                    LET m == state.messages[c][i]
                    IN  state'.messages[c][i] =
                          IF /\ c = last'.data.chatId
                             /\ \/ m.serverId \in last'.data.messageIds
                                \/ m.localId \in last'.data.messageIds
                          THEN [m EXCEPT !.status = "read"]
                          ELSE m]_vars

\* A messages_read frame has just set to read a message it names by serverId
\* and one it names by localId.
C8_Witness ==
  /\ last.op = "onmessage" /\ last.type = "messages_read"
  /\ \E i \in 1 .. Len(Bucket(state.messages, BobChat)) :
       LET m == state.messages[BobChat][i]
       IN  /\ m.serverId \in last.data.messageIds
           /\ m.localId \notin last.data.messageIds
           /\ m.status = "read"

\* ------------------------------------------------------------------------
\* C9. With the transport open, markAsRead(peer) sets to read every message
\* of the snapshot that the peer wrote and that is not read, and sends exactly
\* one mark_read frame whose identifiers are those messages' (serverId when
\* there is one, else localId).
\* ------------------------------------------------------------------------
C9_MarkAsReadActsOnSnapshot ==
  [][(/\ last'.op = "dbStep" /\ last'.dbOp = "markAsRead.toArray" /\ last'.ok
      /\ ~last'.idle
      /\ IsOpen(readyState, wsRef)
      /\ UnreadInMemory(state, last'.chatId) # {})
       => /\ UnreadInMemory(state', last'.chatId) = {}
          /\ Len(sent') = 1
          /\ sent'[1].frame.type = "mark_read"
          /\ SeqToSet(sent'[1].frame.messageIds)
               = {ResolvedId(m) : m \in UnreadInMemory(state, last'.chatId)}]_vars

\* ------------------------------------------------------------------------
\* C10. markAsRead is a no-op when it is called while the snapshot holds no
\* unread message of the peer's for the conversation, or while the transport
\* is not open: it sends no frame, then or later, and leaves the snapshot and
\* the durable store as they were.
\* ------------------------------------------------------------------------
C10_MarkAsReadNoOp ==
  [][(last'.op = "dbStep" /\ last'.dbOp = "markAsRead.toArray" /\ last'.idle)
       => /\ sent' = <<>>
          /\ Snapshot(state') = Snapshot(state)
          /\ db' = db
          /\ imports' = imports
          /\ dbQueue' = SubSeq(dbQueue, 1, last'.pos - 1)
                         \o SubSeq(dbQueue, last'.pos + 1, Len(dbQueue))]_vars

\* A bucket in ascending timestamp order.
Sorted(bucket) ==
  \A i, j \in 1 .. Len(bucket) : i < j => bucket[i].timestamp <= bucket[j].timestamp

\* ------------------------------------------------------------------------
\* C11. A history frame leaves its conversation's bucket in ascending
\* timestamp order whatever the order of the frame's messages; a message of
\* the frame that was not there enters at sent when the user wrote it and at
\* delivered otherwise; the messages already there keep every field; and
\* handling the same frame once more leaves the messages map as it is.
\* ------------------------------------------------------------------------
C11_HistoryMerge ==
  [][(last'.op = "onmessage" /\ last'.type = "history" /\ last'.wasMounted)
       => LET f   == last'.data
              old == Bucket(state.messages, f.chatId)
              new == Bucket(state'.messages, f.chatId)
              ids == {f.messages[i].id : i \in 1 .. Len(f.messages)}
          IN  /\ Sorted(new)
              /\ \A i \in 1 .. Len(f.messages) :
                   LET w == f.messages[i]
                   IN  /\ LocalCount(new, w.id) = 1
                       /\ ~HasLocalId(old, w.id)
                            => \E k \in 1 .. Len(new) :
                                 /\ new[k].localId = w.id
                                 /\ new[k].status = IF w.from = Me THEN "sent" ELSE "delivered"
                                 /\ new[k].senderUsername = w.from
                                 /\ new[k].timestamp = w.timestamp
              /\ \A k \in 1 .. Len(old) : \E n \in 1 .. Len(new) : new[n] = old[k]
              /\ Len(new) = Len(old) + Cardinality({x \in ids : ~HasLocalId(old, x)})
              /\ Handle(f, state', Me).state.messages = state'.messages]_vars

\* A history frame whose newer message came first has just been merged into
\* a bucket that already held one of its messages.
C11_Witness ==
  /\ last.op = "onmessage" /\ last.type = "history"
  /\ last.data.messages[1].timestamp > last.data.messages[2].timestamp
  /\ Len(Bucket(state.messages, BobChat)) >= 3
  /\ \E k \in 1 .. Len(Bucket(state.messages, BobChat)) :
       /\ state.messages[BobChat][k].localId = last.data.messages[1].id
       /\ state.messages[BobChat][k].timestamp # last.data.messages[1].timestamp

\* ------------------------------------------------------------------------
\* C12. After any sequence of inbound frames (new_message, pending_messages,
\* history, message_sent) and local sends, every conversation bucket is in
\* ascending timestamp order.
\* ------------------------------------------------------------------------
C12_BucketsSorted ==
  \A c \in DOMAIN state.messages : Sorted(state.messages[c])

\* Every message of a backlog frame that the bucket did not hold is in the
\* bucket once, at delivered, and what the bucket held is as it was.
BacklogMerged(s, t, f) ==
  /\ \A i \in 1 .. Len(f.messages) :
       LET w   == f.messages[i]
           old == Bucket(s.messages, w.chatId)
           new == Bucket(t.messages, w.chatId)
       IN  ~HasLocalId(old, w.id)
             => /\ LocalCount(new, w.id) = 1
                /\ \E k \in 1 .. Len(new) :
                     /\ new[k].localId = w.id
                     /\ new[k].status = "delivered"
                     /\ new[k].senderUsername = w.from
                     /\ new[k].timestamp = w.timestamp
  /\ \A c \in DOMAIN s.messages :
       \A k \in 1 .. Len(s.messages[c]) : Bucket(t.messages, c)[k] = s.messages[c][k]

\* The one ack_pending frame of a backlog frame, on the socket it came on.
BacklogAck(h, f) == <<[ws |-> h, frame |-> [type |-> "ack_pending", ids |-> f.messageIds]]>>

\* ------------------------------------------------------------------------
\* C13. For each pending_messages frame that is handled, every message of
\* the frame that is not present yet enters at delivered, and exactly one
\* ack_pending frame with the frame's identifier list goes out on the socket
\* the backlog arrived on.
\* ------------------------------------------------------------------------
C13_BacklogAcked ==
  [][(last'.op = "onmessage" /\ last'.type = "pending_messages" /\ last'.wasMounted)
       => /\ BacklogMerged(state, state', last'.data)
          /\ sent' = BacklogAck(last'.ws, last'.data)]_vars

\* A backlog of two messages, one of them new, has been handled on the open
\* socket and acknowledged there.
C13_Witness ==
  /\ last.op = "onmessage" /\ last.type = "pending_messages" /\ last.wasMounted
  /\ readyState[last.ws] = "open"
  /\ sent = BacklogAck(last.ws, last.data)
  /\ Len(Bucket(state.messages, BobChat)) = 2
  /\ \A k \in 1 .. 2 : state.messages[BobChat][k].status = "delivered"

\* ------------------------------------------------------------------------
\* C14. When connect() has replaced a socket that was held, the close event
\* delivered later for the replaced socket schedules no reconnect, whatever
\* its close code: no backoff timer is armed, the attempt counter and the
\* reconnecting status are not touched by it.
\* ------------------------------------------------------------------------
C14_SupersededCloseSchedulesNothing ==
  [][(last'.op = "onclose" /\ last'.superseded)
       => /\ timers' = timers
          /\ reconnectTimerRef' = reconnectTimerRef
          /\ reconnectAttemptsRef' = reconnectAttemptsRef
          /\ (state'.connectionStatus = "reconnecting" => state.connectionStatus = "reconnecting")]_vars

\* A socket that is connecting or open and that close() has not been called on.
Live(h) == readyState[h] \in {"connecting", "open"}

\* ------------------------------------------------------------------------
\* C15. At every moment at most one socket is live (connecting or open and
\* not yet asked to close), and it is the one the hook holds: every path
\* that creates a socket has first called close() on the one held before.
\* ------------------------------------------------------------------------
C15_OneLiveHandle ==
  /\ \A h \in Handles : Live(h) => h = wsRef
  /\ Cardinality({h \in Handles : Live(h)}) <= 1

\* A second socket is live while the first, asked to close, has not closed yet.
C15_Witness ==
  /\ handleCount >= 2
  /\ wsRef # NoHandle /\ Live(wsRef)
  /\ \E h \in Handles : h # wsRef /\ readyState[h] \in {"closing", "aborting"}

\* ------------------------------------------------------------------------
\* C16. From the open event of the socket the hook holds until that socket
\* closes, a heartbeat timer is armed (and it is that socket's); the open
\* event leaves the retry counter at 0; a ping goes out only on an open socket.
\* ------------------------------------------------------------------------
C16_HeartbeatWhileOpen ==
  /\ (isMountedRef /\ wsRef # NoHandle /\ readyState[wsRef] = "open")
       => (pingLive /\ pingTimerRef = wsRef)
  /\ (last.op = "onopen" /\ isMountedRef) => reconnectAttemptsRef = 0
  /\ \A i \in 1 .. Len(sent) :
       sent[i].frame.type = "ping" => readyState[sent[i].ws] = "open"

\* The typing flag of peer p in the snapshot.
IsTyping(p) == p \in DOMAIN state.typingPeers /\ state.typingPeers[p]

\* ------------------------------------------------------------------------
\* C17. While the hook is mounted, whenever typingPeers[p] is true an expiry
\* timer for p is armed; a typing_stop frame from p leaves the flag false and
\* no timer of p armed.
\* ------------------------------------------------------------------------
C17_TypingFlagHasTimer ==
  /\ phase = "mounted" => \A p \in Peers : IsTyping(p) => p \in typingTimerRef
  /\ (phase = "mounted" /\ last.op = "onmessage" /\ last.type = "typing_stop" /\ last.wasMounted)
       => (~IsTyping(last.data.from) /\ last.data.from \notin typingTimerRef)

\* The rows of the store with the given localId.
RowsOf(localId) == {i \in 1 .. Len(db) : db[i].localId = localId}

\* ------------------------------------------------------------------------
\* C18. When every store operation has succeeded and none is pending, the
\* store holds, for every message of the snapshot, exactly one row with that
\* localId, and the row's status, serverId and timestamp are the message's.
\* ------------------------------------------------------------------------
C18_ViewsConverge ==
  (phase = "mounted" /\ StoreIdle)
    => \A c \in DOMAIN state.messages : \A k \in 1 .. Len(state.messages[c]) :
         LET m == state.messages[c][k]
         IN  /\ Cardinality(RowsOf(m.localId)) = 1
             /\ \A i \in RowsOf(m.localId) :
                  /\ db[i].status = m.status
                  /\ db[i].serverId = m.serverId
                  /\ db[i].timestamp = m.timestamp

\* ------------------------------------------------------------------------
\* C19. The snapshot and the outbound frames do not depend on the store: the
\* completion of a store operation issued by a send, an inbound frame,
\* markAsRead or clearChat, successful or failed, early or late, changes no
\* field of the snapshot and sends no frame (hydration apart).
\* ------------------------------------------------------------------------
C19_StoreOutcomeIsInvisible ==
  [][(last'.op = "dbStep" /\ last'.dbOp # "getRecentMessagesForHydration")
       => (state' = state /\ sent' = <<>>)]_vars

\* ------------------------------------------------------------------------
\* C20. Whatever the order in which upsertMessage and bulkUpsertMessages
\* calls are issued and complete, the store never holds two rows with the
\* same localId.
\* ------------------------------------------------------------------------
C20_OneRowPerLocalId ==
  \A i, j \in 1 .. Len(db) : db[i].localId = db[j].localId => i = j

\* A bulkUpsertMessages transaction has completed on a store that already
\* held a row of one of its messages, while another upsert is still pending.
C20_Witness ==
  /\ last.op = "dbStep" /\ last.dbOp = "bulkUpsertMessages" /\ last.ok
  /\ Len(db) >= 2
  /\ dbQueue # <<>>
  /\ Head(dbQueue).op = "upsertMessage"
  /\ RowsOf(Head(dbQueue).msgs[1].localId) # {}

\* The localIds of the durable rows of conversation c.
StoredIds(rows, c) == {rows[i].localId : i \in {j \in 1 .. Len(rows) : rows[j].chatId = c}}

\* ------------------------------------------------------------------------
\* C21. Hydration merges by localId without overwriting: when the hydration
\* read completes, a durable row enters the snapshot exactly when its
\* conversation bucket holds no message with its localId, and every message
\* that was in memory is still there with every field as it was, whether
\* or not frames were handled before the read completed.
\* ------------------------------------------------------------------------
C21_HydrationMerges ==
  [][(/\ last'.op = "dbStep" /\ last'.dbOp = "getRecentMessagesForHydration"
      /\ last'.ok /\ isMountedRef)
       => /\ state'.dbLoaded
          /\ \A c \in DOMAIN state'.messages :
               LET old == Bucket(state.messages, c)
                   new == state'.messages[c]
                   add == {x \in StoredIds(db, c) : ~HasLocalId(old, x)}
               IN  /\ \A k \in 1 .. Len(old) : \E n \in 1 .. Len(new) : new[n] = old[k]
                   /\ \A x \in add :
                        /\ LocalCount(new, x) = 1
                        /\ \E n \in 1 .. Len(new), i \in 1 .. Len(db) :
                             new[n] = db[i] /\ db[i].localId = x /\ db[i].chatId = c
                   /\ Len(new) = Len(old) + Cardinality(add)
          /\ \A c \in DOMAIN state.messages : c \in DOMAIN state'.messages
          /\ \A i \in 1 .. Len(db) : db[i].chatId \in DOMAIN state'.messages]_vars

\* The hydration read has completed after frames were handled: bob's message
\* was in memory with a status or timestamp other than its row's and kept
\* it, and the user's message came in from the store.
C21_Witness ==
  /\ last.op = "dbStep" /\ last.dbOp = "getRecentMessagesForHydration" /\ last.ok
  /\ state.dbLoaded
  /\ Len(Bucket(state.messages, BobChat)) = 2
  /\ \E k \in 1 .. 2, i \in 1 .. Len(db) :
       /\ state.messages[BobChat][k].localId = "s1"
       /\ db[i].localId = "s1"
       /\ state.messages[BobChat][k] # db[i]
  /\ \E k \in 1 .. 2, i \in 1 .. Len(db) :
       state.messages[BobChat][k].localId = "s2" /\ state.messages[BobChat][k] = db[i]

\* ------------------------------------------------------------------------
\* C22. The clear-conversation action for the conversation with a peer, as
\* the dashboard invokes it, removes that conversation's bucket from the
\* snapshot, asks the store to delete that conversation's rows, and leaves
\* every other bucket as it was.
\* ------------------------------------------------------------------------
C22_ClearRemovesConversation ==
  [][(last'.op = "clearChat" /\ last'.chatId \in Peers)
       => LET c == dmChatId(Me, last'.chatId)
          IN  /\ c \notin DOMAIN state'.messages
              /\ \A k \in (DOMAIN state.messages) \ {c} :
                   k \in DOMAIN state'.messages /\ state'.messages[k] = state.messages[k]
              /\ imports' # <<>>
              /\ imports'[Len(imports')].op = "delete"
              /\ imports'[Len(imports')].chatId = c]_vars

\* ------------------------------------------------------------------------
\* C23. A malformed inbound frame (text that does not parse, or a parsed
\* frame that lacks a field of its type) is discarded: it changes no part of
\* the snapshot and sends no outbound frame.
\* ------------------------------------------------------------------------
C23_MalformedDiscarded ==
  [][(last'.op = "onmessage" /\ (last'.type = "<bad json>" \/ last'.data \in MalformedFrames))
       => (state' = state /\ sent' = <<>>)]_vars

\* `[${code}] ${message}` of the error frames the server sends here.
ErrorText(f) ==
  IF f.code = 4000 THEN "[4000] bad request" ELSE "[5000] internal"

\* ------------------------------------------------------------------------
\* C24. While the component is mounted, handling an inbound error frame
\* sets the snapshot's error to the frame's code and message, whatever
\* error was shown before (the latest frame wins), and leaves
\* connectionStatus, messages, typingPeers and peerStatuses as they were; no
\* socket is closed, no retry is scheduled and nothing is sent.
\* ------------------------------------------------------------------------
C24_ErrorFrameSurfaced ==
  [][(last'.op = "onmessage" /\ last'.type = "error" /\ last'.wasMounted /\ phase = "mounted")
       => /\ state'.error = ErrorText(last'.data)
          /\ state' = [state EXCEPT !.error = ErrorText(last'.data)]
          /\ readyState' = readyState
          /\ wsRef' = wsRef
          /\ timers' = timers
          /\ reconnectTimerRef' = reconnectTimerRef
          /\ reconnectAttemptsRef' = reconnectAttemptsRef
          /\ sent' = <<>>]_vars

\* An error frame has been handled on the open socket the hook holds: the
\* status is still connected and the error shown is the frame's.
C24_Witness ==
  /\ last.op = "onmessage" /\ last.type = "error" /\ last.wasMounted
  /\ phase = "mounted"
  /\ last.ws = wsRef /\ readyState[wsRef] = "open"
  /\ state.connectionStatus = "connected"
  /\ state.error = "[5000] internal"

\* ------------------------------------------------------------------------
\* C25. For every message of the snapshot, serverId, once set, never
\* changes: after any event, a message that had a serverId and is still in
\* its bucket (same localId) has the same serverId.
\* ------------------------------------------------------------------------
C25_ServerIdStable ==
  [][\A c \in (DOMAIN state.messages) \cap (DOMAIN state'.messages) :
       \A k \in 1 .. Len(state.messages[c]), n \in 1 .. Len(state'.messages[c]) :
         (/\ state.messages[c][k].serverId # NoId
          /\ state'.messages[c][n].localId = state.messages[c][k].localId)
           => state'.messages[c][n].serverId = state.messages[c][k].serverId]_vars

\* ------------------------------------------------------------------------
\* C26. A message_sent frame whose localId matches no message of the target
\* conversation is dropped: the snapshot is left as it was and no message is
\* created, in memory or, through a write it issues, in the store.
\* ------------------------------------------------------------------------
C26_UnmatchedAckDropped ==
  [][(/\ last'.op = "onmessage" /\ last'.type = "message_sent"
      /\ last'.wasMounted /\ phase = "mounted"
      /\ ~HasLocalId(Bucket(state.messages, last'.data.message.chatId), last'.data.localId))
       => (state' = state /\ dbQueue' = dbQueue /\ imports' = imports)]_vars

\* ------------------------------------------------------------------------
\* C27. Handling message_sent changes only the serverId, status and
\* timestamp of the messages it matches (localId, in the bucket of the
\* frame's chatId): every message keeps its index in its bucket, every other
\* field and every other message is as it was, and so is the rest of the
\* snapshot.
\* ------------------------------------------------------------------------
C27_AckKeepsPosition ==
  [][(last'.op = "onmessage" /\ last'.type = "message_sent" /\ last'.wasMounted
      /\ phase = "mounted")
       => LET f == last'.data
          IN  /\ DOMAIN state'.messages = DOMAIN state.messages
              /\ \A c \in DOMAIN state.messages :
                   /\ Len(state'.messages[c]) = Len(state.messages[c])
                   /\ \A k \in 1 .. Len(state.messages[c]) :
                        LET m == state.messages[c][k]
                        IN  state'.messages[c][k] =
                              IF c = f.message.chatId /\ m.localId = f.localId
                              THEN [m EXCEPT !.serverId = f.message.id,
                                             !.status = "sent",
                                             !.timestamp = f.message.timestamp]
                              ELSE m
              /\ [state' EXCEPT !.messages = state.messages] = state]_vars

\* An acknowledgement has moved the timestamp of the first message of a
\* bucket past that of the message after it, and the message is still first.
C27_Witness ==
  /\ last.op = "onmessage" /\ last.type = "message_sent" /\ last.wasMounted
  /\ Len(Bucket(state.messages, BobChat)) >= 2
  /\ state.messages[BobChat][1].localId = last.data.localId
  /\ state.messages[BobChat][1].serverId = last.data.message.id
  /\ state.messages[BobChat][1].timestamp > state.messages[BobChat][2].timestamp

\* The identity a spelling of a username stands for.
Identity(n) ==
  CASE n \in {"alice", "Alice", "ALICE"} -> 1
    [] n \in {"bob", "Bob", "BOB"}       -> 2
    [] OTHER                             -> 3

\* ------------------------------------------------------------------------
\* C28. For any two identities A and B, dmChatId(A, B) equals dmChatId(B, A),
\* also when the two calls spell A and B in different letter case.
\* ------------------------------------------------------------------------
C28_KeySymmetric ==
  (/\ last.op = "dmChatId" /\ last.prevKey # NoId
   /\ Identity(last.a) = Identity(last.prevB)
   /\ Identity(last.b) = Identity(last.prevA))
    => last.key = last.prevKey

\* dmChatId("BOB", "alice") has been computed after dmChatId("Alice", "bob").
C28_Witness ==
  /\ last.op = "dmChatId"
  /\ last.a = "BOB" /\ last.b = "alice"
  /\ last.prevA = "Alice" /\ last.prevB = "bob"
  /\ last.key = "dm:alice:bob"

\* Contact lists the dashboard may hold.
ContactLists == SUBSET {"bob", "Bob", "carol"}

\* The messages of chat cid in the snapshot that someone else wrote and that
\* are not read, by position.
UnreadPositions(cid) ==
  IF cid \in DOMAIN state.messages
  THEN {i \in 1 .. Len(state.messages[cid]) :
          /\ state.messages[cid][i].senderUsername # myUsername
          /\ state.messages[cid][i].status # "read"}
  ELSE {}

\* ------------------------------------------------------------------------
\* C29. In the derived conversation view every conversation's unreadCount
\* is the number of messages in its bucket that another user wrote and that
\* are not read; right after a local read of a conversation has been applied
\* to the snapshot, that conversation's unreadCount is 0.
\* ------------------------------------------------------------------------
C29_UnreadCountDerived ==
  \A contacts \in ContactLists :
    LET view == conversations(state, myUsername, contacts)
    IN  /\ \A u \in DOMAIN view :
             view[u].unreadCount
               = Cardinality(UnreadPositions(dmChatId(myUsername, u)))
        /\ (/\ last.op = "dbStep" /\ last.dbOp = "markAsRead.toArray" /\ last.ok
            /\ sent # <<>> /\ phase = "mounted")
             => \A u \in DOMAIN view :
                  dmChatId(myUsername, u) = last.chatId => view[u].unreadCount = 0

\* ------------------------------------------------------------------------
\* C30. The teardown of the connect effect, at unmount and before the
\* reconnect that a changed token or identity causes, leaves no heartbeat,
\* backoff or typing-expiry timer armed; so no timer armed before a teardown
\* fires after it.
\* ------------------------------------------------------------------------
C30_TeardownDisarmsTimers ==
  [][(last'.op \in {"unmount", "setProps"} /\ HasCreds(token, myUsername))
       => (timers' = {} /\ ~pingLive' /\ typingTimerRef' = {})]_vars

\* The messages of snapshot s, of every conversation.
AllMessages(s) ==
  UNION {SeqToSet(s.messages[cid]) : cid \in DOMAIN s.messages}

\* ------------------------------------------------------------------------
\* C31. A failed send shows as status failed on the message: when a socket
\* closes while a message sent on it is still sending (no message_sent for
\* its localId was processed), that message's status becomes failed; and a
\* message that is failed was sending or failed in the snapshot before.
\* ------------------------------------------------------------------------
C31_FailedSendIsMarked ==
  [][/\ (last'.op = "onclose" /\ last'.wasMounted /\ phase = "mounted")
          => \A m \in AllMessages(state) :
               m.status = "sending"
                 => \E n \in AllMessages(state') :
                      n.localId = m.localId /\ n.status = "failed"
     /\ \A n \in AllMessages(state') :
          n.status = "failed"
            => \E m \in AllMessages(state) :
                 m.localId = n.localId /\ m.status \in {"sending", "failed"}]_vars

\* ------------------------------------------------------------------------
\* C32. The reducer does not mutate the snapshot it is given: after the
\* transition the passed-in snapshot, each of its buckets included, has the
\* contents it had before. Stated for DB_HYDRATED, the one case that writes
\* through a reference it did not copy; the other cases build their result
\* from spread copies.
\* ------------------------------------------------------------------------
C32_ReducerLeavesArgument ==
  [][(/\ last'.op = "dbStep" /\ last'.dbOp = "getRecentMessagesForHydration"
      /\ last'.ok /\ isMountedRef /\ phase = "mounted")
       => DB_HYDRATED_Argument(state, getRecentMessagesForHydration(db)) = state]_vars

\* ------------------------------------------------------------------------
\* C33. connectionStatus agrees with the socket the hook holds: while the
\* hook is mounted and that socket is open (its open event was processed)
\* the status is connected; and the close event of a superseded socket does
\* not set the status to disconnected or auth_failed while the socket the
\* hook holds is connecting or open.
\* ------------------------------------------------------------------------
C33_StatusFollowsCurrentHandle ==
  [][/\ (/\ phase' = "mounted" /\ isMountedRef'
         /\ wsRef' # NoHandle /\ readyState'[wsRef'] = "open")
          => state'.connectionStatus = "connected"
     /\ (/\ last'.op = "onclose" /\ last'.superseded
         /\ readyState'[wsRef'] \in {"connecting", "open"}
         /\ state'.connectionStatus \in {"disconnected", "auth_failed"})
          => state'.connectionStatus = state.connectionStatus]_vars

\* ------------------------------------------------------------------------
\* C34. At most one backoff timer is pending at any time, and reconnect()
\* cancels the pending one: right after a reconnect() that connects no
\* backoff timer is armed, so none scheduled before it can fire later and
\* replace the socket it opened.
\* ------------------------------------------------------------------------
C34_OneBackoffTimer ==
  [][/\ Cardinality(timers') <= 1
     /\ (last'.op = "reconnect" /\ last'.made) => timers' = {}]_vars

\* No bucket of snapshot s holds a message whose serverId is the localId of
\* another message of the bucket.
ServerMessageOnce(s) ==
  \A cid \in DOMAIN s.messages :
    \A i, j \in 1 .. Len(s.messages[cid]) :
      (i # j /\ s.messages[cid][i].serverId # NoId)
        => s.messages[cid][i].serverId # s.messages[cid][j].localId

\* ------------------------------------------------------------------------
\* C35. A server message appears at most once in its conversation: when a
\* send has been acknowledged with serverId S, a history frame that replays
\* the message with id S adds no second entry, i.e. the frame leaves no
\* bucket with a message whose serverId is another message's localId.
\* ------------------------------------------------------------------------
C35_ServerMessageOnce ==
  [][(last'.op = "onmessage" /\ last'.type = "history" /\ ServerMessageOnce(state))
       => ServerMessageOnce(state')]_vars

\* ------------------------------------------------------------------------
\* C36. In the snapshot, read is absorbing: a message whose status is read
\* keeps that status through every later event, as long as it is in the
\* snapshot.
\* ------------------------------------------------------------------------
C36_ReadIsAbsorbing ==
  [][\A m \in AllMessages(state) :
       m.status = "read"
         => \A n \in AllMessages(state') :
              (n.localId = m.localId /\ n.chatId = m.chatId) => n.status = "read"]_vars

\* ------------------------------------------------------------------------
\* C37. In the durable store a row's status does not regress: a row that is
\* read is still read after every later write to the store, as long as the
\* row exists.
\* ------------------------------------------------------------------------
C37_StoredReadStays ==
  [][\A i \in 1 .. Len(db) :
       db[i].status = "read"
         => \A j \in 1 .. Len(db') :
              db'[j].localId = db[i].localId => db'[j].status = "read"]_vars

\* ------------------------------------------------------------------------
\* C38. A cleared conversation is not resurrected by a late write: a message
\* this hook sent that the snapshot no longer holds (its conversation was
\* cleared after the send) has no row in the durable store once every store
\* operation has completed, also when its optimistic upsert or its
\* message_sent acknowledgement is processed after the clear.
\* ------------------------------------------------------------------------
C38_ClearedNotResurrected ==
  (StoreIdle /\ phase = "mounted")
    => \A k \in 1 .. uuidCount :
         ~HasLocalId(Bucket(state.messages, BobChat), Uuid(k))
           => \A i \in 1 .. Len(db) : db[i].localId # Uuid(k)

\* ------------------------------------------------------------------------
\* C39. sendMessage(to, text) does nothing when the identity is missing,
\* the transport is not open or the text is blank: the snapshot is as it
\* was, no store write is queued and no frame is sent. Otherwise exactly one
\* send_message frame, carrying the localId of the message that was added,
\* is sent on the socket the hook holds.
\* ------------------------------------------------------------------------
C39_SendMessageGuards ==
  [][last'.op = "sendMessage"
       => IF \/ myUsername = NoUser
             \/ wsRef = NoHandle
             \/ readyState[wsRef] # "open"
             \/ last'.text \in {"", " "}
          THEN /\ state' = state
               /\ dbQueue' = dbQueue
               /\ imports' = imports
               /\ sent' = <<>>
          ELSE /\ Len(sent') = 1
               /\ sent'[1].ws = wsRef
               /\ sent'[1].frame.type = "send_message"
               /\ sent'[1].frame.to = last'.to
               /\ HasLocalId(Bucket(state'.messages, dmChatId(myUsername, last'.to)),
                             sent'[1].frame.localId)
               /\ ~HasLocalId(Bucket(state.messages, dmChatId(myUsername, last'.to)),
                              sent'[1].frame.localId)]_vars

\* A blank text has just been refused on an open socket, after a message
\* of ours went out.
C39_Witness ==
  /\ last.op = "sendMessage" /\ last.text = " " /\ ~last.went
  /\ myUsername = Me /\ IsOpen(readyState, wsRef)
  /\ uuidCount = 1
  /\ sent = <<>>

\* ------------------------------------------------------------------------
\* C40. Hydration completes and stays complete: while the hook is mounted
\* with an identity, dbLoaded eventually is true (or the hook has
\* unmounted), whether the read of the store succeeds or fails; and no
\* event sets dbLoaded back to false.
\* ------------------------------------------------------------------------
C40_HydrationCompletes ==
  /\ (phase = "mounted" /\ myUsername # NoUser)
       ~> (state.dbLoaded \/ phase = "unmounted")
  /\ [][state.dbLoaded => state'.dbLoaded]_vars

\* A hydration read has just failed after two prop changes, with the hook
\* mounted with an identity, and the gate is open.
C40_Witness ==
  /\ last.op = "dbStep" /\ last.dbOp = "getRecentMessagesForHydration" /\ ~last.ok
  /\ propChanges = 2
  /\ phase = "mounted" /\ myUsername = Me
  /\ state.dbLoaded

====
